---- MODULE Spec2Model ----
(***************************************************************************)
(* Model of the header colour/state coordinator (GlobalHeaderClient,       *)
(* HamburgerMenu, MenuItemClient, PageHeaderSettings), the page path       *)
(* resolver (buildPagePath, enrichMenuItemsWithPaths, fetchHuvudmeny) and  *)
(* the TTL caches of fetchStandings / fetchTeamPlayers.                    *)
(*                                                                         *)
(* Each subsystem has its own specification (Spec, SpecPath, SpecMenu,     *)
(* SpecCache); the variables of the other subsystems stay at their         *)
(* initial values there.                                                   *)
(***************************************************************************)
EXTENDS Integers, Sequences, FiniteSets, TLC

VARIABLES
  scrollY,        \* window.scrollY
  scrollPending,  \* a scroll notification is queued for the current position
  listeners,      \* window's registered listeners: <<owner, event type>> -> how many
  hdr,            \* GlobalHeaderClient: props, React state, last committed render
  dom,            \* the <header> element and its logo <img>
  lastEval,       \* the last evaluation of GlobalHeaderClient.handleScroll: locals, cause
  ham,            \* HamburgerMenu instance
  item,           \* MenuItemClient instance
  page,           \* PageHeaderSettings instance of the current page
  lastBroadcast,  \* payload of the last pageHeaderSettingsChange dispatch
  receivers,      \* the instances whose listener it invoked (a new mount leaves the set)
  pagesMap,       \* buildPagePath's pagesMap: page id -> page record
  walk,           \* the running (or last) call of buildPagePath: its locals
  cms,            \* the content the CMS holds: the 'huvudmeny' menu and the pages
  hv,             \* the running (or last) call of fetchHuvudmeny
  now,            \* Date.now(), in ms
  ticks,          \* how often the clock has advanced
  secret,         \* process.env.SMC_SECRET is set
  standingsCache, \* fetchStandings' cache: key -> [data, timestamp]
  playersCache,   \* fetchTeamPlayers' cache: key -> [data, timestamp]
  calls,          \* the callers of fetchStandings / fetchTeamPlayers
  requests,       \* network requests issued so far
  responses,      \* response bodies parsed so far (each a new object)
  origin,         \* the arguments of each caller's call and of the call behind each entry
  backend,        \* what the CMS answers to a content query: an entity, a list
  content,        \* the running (or last) call of a content endpoint
  redirectApi,    \* the redirect API's answer per path: a match or null
  redirectCache,  \* middleware's cache: key -> [redirect, expires]
  mwNow,          \* Date.now() as the middleware sees it, in ms
  mwTicks,        \* how often that clock has advanced
  mw,             \* the running (or last) request in the middleware
  form,           \* the running (or last) request to the form submission handler
  itemProps,      \* MenuItemClient's props: colors and the legacy textColor
  isHovered,      \* MenuItemClient's isHovered state
  drawer,         \* HamburgerMenu's drawer: isOpen, expandedItems, the last event
  bodyOverflow    \* document.body.style.overflow

headerVars == <<scrollY, scrollPending, listeners, hdr, dom, lastEval, ham, item,
                page, lastBroadcast, receivers>>
pathVars == <<pagesMap, walk>>
menuVars == <<cms, hv>>
cacheVars == <<now, ticks, secret, standingsCache, playersCache, calls, requests, responses,
               origin>>
contentVars == <<backend, content>>
mwVars == <<redirectApi, redirectCache, mwNow, mwTicks, mw>>
formVars == <<form>>
itemViewVars == <<itemProps, isHovered>>
drawerVars == <<drawer, bodyOverflow>>

nonHeaderVars == <<pathVars, menuVars, cacheVars, contentVars, mwVars, formVars, itemViewVars,
  drawerVars>>
nonPathVars == <<headerVars, menuVars, cacheVars, contentVars, mwVars, formVars, itemViewVars,
  drawerVars>>
nonMenuVars == <<headerVars, pathVars, cacheVars, contentVars, mwVars, formVars, itemViewVars,
  drawerVars>>
nonCacheVars == <<headerVars, pathVars, menuVars, contentVars, mwVars, formVars, itemViewVars,
  drawerVars>>
nonContentVars == <<headerVars, pathVars, menuVars, cacheVars, mwVars, formVars, itemViewVars,
  drawerVars>>
nonMwVars == <<headerVars, pathVars, menuVars, cacheVars, contentVars, formVars, itemViewVars,
  drawerVars>>
nonFormVars == <<headerVars, pathVars, menuVars, cacheVars, contentVars, mwVars, itemViewVars,
  drawerVars>>
nonItemViewVars == <<headerVars, pathVars, menuVars, cacheVars, contentVars, mwVars, formVars,
  drawerVars>>
nonDrawerVars == <<headerVars, pathVars, menuVars, cacheVars, contentVars, mwVars, formVars,
  itemViewVars>>

vars == <<headerVars, pathVars, menuVars, cacheVars, contentVars, mwVars, formVars, itemViewVars,
  drawerVars>>

(***************************************************************************)
(* Bounds and program constants                                            *)
(***************************************************************************)
ScrollThreshold == 10
ScrollWindow == 1

ScrollPositions ==
  {0} \cup (ScrollThreshold .. (ScrollThreshold + ScrollWindow))

LogoSrc == "logo.png"            \* the <img>'s src as rendered
LogoOnScroll == "logo-dark.png"  \* data-logo-on-scroll
CssColor == "css-color"          \* --color-on-scroll of the first container
CssBg == "css-bg"                \* --background-color-on-scroll of the first container
SettingsColor == "settings-color"
SettingsBg == "settings-bg"

BoolAttr(b) == IF b THEN "true" ELSE "false"

(* The header configurations a mount may be given: settings.background and  *)
(* the on-scroll colours (container CSS variables and settings), the logo.  *)
(* A header without a container block has no CSS variables to read; a      *)
(* container defines both on-scroll variables or neither. The logo block   *)
(* and the colours do not interact in handleScroll, so the header without  *)
(* a data-logo-on-scroll block is taken with one colour configuration.     *)
HeaderConfigs ==
  { c \in [ isTransparent : BOOLEAN,
            hasContainer  : BOOLEAN,
            cssColorOnScroll : {"", CssColor},
            cssBgOnScroll    : {"", CssBg},
            settingsColorOnScroll : {SettingsColor},
            settingsBgOnScroll    : {SettingsBg},
            logoOnScroll : {"", LogoOnScroll} ] :
      /\ (c.cssColorOnScroll = "") = (c.cssBgOnScroll = "")
      /\ ~c.hasContainer => c.cssBgOnScroll = ""
      /\ c.logoOnScroll = "" => ~c.hasContainer }

NoHeader ==
  [ mounted |-> FALSE, isTransparent |-> FALSE, hasContainer |-> FALSE,
    cssColorOnScroll |-> "", cssBgOnScroll |-> "",
    settingsColorOnScroll |-> "", settingsBgOnScroll |-> "", logoOnScroll |-> "",
    isScrolled |-> FALSE, reverseHeaderColors |-> FALSE,
    rIsScrolled |-> FALSE, rReverse |-> FALSE ]

NoDom ==
  [ attrTransparent |-> "false", attrReverse |-> "false",
    backgroundColor |-> "transparent", scrolledClass |-> FALSE,
    color |-> "", logoSrc |-> "", originalSrc |-> "" ]

NoEval ==
  [ valid |-> FALSE, y |-> 0, scrolled |-> FALSE, isTransparent |-> FALSE,
    flag |-> FALSE, reverseText |-> FALSE, background |-> FALSE, swapLogo |-> FALSE,
    cause |-> "none" ]

NoSubscriber == [ mounted |-> FALSE, scrolled |-> FALSE, reverseHeaderColors |-> FALSE, seenY |-> 0 ]

(***************************************************************************)
(* GlobalHeaderClient.handleScroll                                         *)
(***************************************************************************)
Scrolled_atThreshold(y) == y >= ScrollThreshold

Scrolled(y) == y > ScrollThreshold

ShouldApplyReverseTextColors_scrollOnly(isTransparent, reverseHeaderColors, scrolled) ==
  scrolled

ShouldApplyReverseTextColors(isTransparent, reverseHeaderColors, scrolled) ==
  IF isTransparent THEN (reverseHeaderColors \/ scrolled) ELSE scrolled

ShouldApplyBackground_onFlag(isTransparent, reverseHeaderColors, scrolled) ==
  IF isTransparent THEN (reverseHeaderColors \/ scrolled) ELSE scrolled

ShouldApplyBackground(isTransparent, reverseHeaderColors, scrolled) ==
  scrolled

ShouldSwapLogo_scrollOnly(isTransparent, reverseHeaderColors, scrolled) ==
  scrolled

ShouldSwapLogo(isTransparent, reverseHeaderColors, scrolled) ==
  IF isTransparent THEN (reverseHeaderColors \/ scrolled) ELSE scrolled

ColorOnScroll(h) ==
  IF h.hasContainer THEN h.cssColorOnScroll ELSE h.settingsColorOnScroll

BgColorOnScroll(h) ==
  IF h.hasContainer THEN h.cssBgOnScroll ELSE h.settingsBgOnScroll

ApplyBackground(d, h, shouldApplyBackground) ==
  IF shouldApplyBackground
    THEN [d EXCEPT !.backgroundColor =
                      IF BgColorOnScroll(h) # "" THEN BgColorOnScroll(h) ELSE @,
                   !.scrolledClass = TRUE]
    ELSE [d EXCEPT !.backgroundColor = "transparent", !.scrolledClass = FALSE]

ApplyTextColors(d, h, shouldApplyReverseTextColors) ==
  IF shouldApplyReverseTextColors
    THEN [d EXCEPT !.color = IF ColorOnScroll(h) # "" THEN ColorOnScroll(h) ELSE @]
    ELSE [d EXCEPT !.color = ""]

SwapLogo_overwrite(d, h, shouldSwapLogo) ==
  IF shouldSwapLogo /\ h.logoOnScroll # ""
    THEN [d EXCEPT !.originalSrc = d.logoSrc, !.logoSrc = h.logoOnScroll]
    ELSE IF ~shouldSwapLogo /\ h.logoOnScroll # ""
      THEN [d EXCEPT !.logoSrc = IF d.originalSrc # "" THEN d.originalSrc ELSE @]
      ELSE d

SwapLogo(d, h, shouldSwapLogo) ==
  IF shouldSwapLogo /\ h.logoOnScroll # ""
    THEN [d EXCEPT !.originalSrc = IF @ = "" THEN d.logoSrc ELSE @,
                   !.logoSrc = h.logoOnScroll]
    ELSE IF ~shouldSwapLogo /\ h.logoOnScroll # ""
      THEN [d EXCEPT !.logoSrc = IF d.originalSrc # "" THEN d.originalSrc ELSE @]
      ELSE d

(* One evaluation of handleScroll by the closure of the last committed      *)
(* render (it captured isTransparent and reverseHeaderColors = h.rReverse). *)
handleScroll(h, d, y) ==
  LET scrolled == Scrolled(y)
      text == ShouldApplyReverseTextColors(h.isTransparent, h.rReverse, scrolled)
      bg   == ShouldApplyBackground(h.isTransparent, h.rReverse, scrolled)
      logo == ShouldSwapLogo(h.isTransparent, h.rReverse, scrolled)
  IN [ hdr |-> [h EXCEPT !.isScrolled = scrolled],
       dom |-> SwapLogo(ApplyTextColors(ApplyBackground(d, h, bg), h, text), h, logo),
       eval |-> [ valid |-> TRUE, y |-> y, scrolled |-> scrolled,
                  isTransparent |-> h.isTransparent, flag |-> h.rReverse,
                  reverseText |-> text, background |-> bg, swapLogo |-> logo,
                  cause |-> "none" ] ]

(***************************************************************************)
(* HamburgerMenu and MenuItemClient handlers                               *)
(***************************************************************************)
HeaderIsTransparentAttr(h, d) == h.mounted /\ d.attrTransparent = "true"

HamUpdateReverseColors_noSnapshot(s, h, d) == s

HamUpdateReverseColors(s, h, d) ==
  IF h.mounted
    THEN [s EXCEPT !.reverseHeaderColors =
                      (d.attrReverse = "true") /\ (d.attrTransparent = "true")]
    ELSE s

HamPageSettingsChange_noTransparency(s, h, d, detail) ==
  [s EXCEPT !.reverseHeaderColors = detail]

HamPageSettingsChange(s, h, d, detail) ==
  [s EXCEPT !.reverseHeaderColors = detail /\ HeaderIsTransparentAttr(h, d)]

HamHandleScroll(s, y) == [s EXCEPT !.scrolled = Scrolled(y), !.seenY = y]

ItemUpdateReverseColors(s, h, d) ==
  IF h.mounted
    THEN [s EXCEPT !.reverseHeaderColors =
                      (d.attrReverse = "true") /\ (d.attrTransparent = "true")]
    ELSE s

ItemPageSettingsChange(s, h, d, detail) ==
  [s EXCEPT !.reverseHeaderColors = detail /\ HeaderIsTransparentAttr(h, d)]

ItemHandleScroll(s, y) == [s EXCEPT !.scrolled = Scrolled(y), !.seenY = y]

ShouldUseReverseColors(s) == s.reverseHeaderColors \/ s.scrolled

(***************************************************************************)
(* window.dispatchEvent                                                    *)
(***************************************************************************)
ListenerKeys == {"hdr", "ham", "item"} \X {"scroll", "pageHeaderSettingsChange"}

NoListeners == [k \in ListenerKeys |-> 0]

Listening(owner, type) == listeners[<<owner, type>>] > 0

(* window.addEventListener for each of the keys, every one with a closure   *)
(* created by the effect run that registers it.                             *)
AddEventListeners(l, keys) ==
  [k \in DOMAIN l |-> IF k \in keys THEN l[k] + 1 ELSE l[k]]

RemoveEventListeners_keeps(l, keys) == l

(* window.removeEventListener for each of the keys, with the closure the    *)
(* same effect run registered.                                              *)
RemoveEventListeners(l, keys) ==
  [k \in DOMAIN l |-> IF k \in keys /\ l[k] > 0 THEN l[k] - 1 ELSE l[k]]

(* A bundle is the part of the state a dispatch can touch. *)
Bundle == [ hdr |-> hdr, dom |-> dom, ham |-> ham, item |-> item,
            lastBroadcast |-> lastBroadcast, receivers |-> receivers ]

(* dispatchEvent(new CustomEvent('pageHeaderSettingsChange', { detail })):  *)
(* every registered listener runs synchronously.                            *)
DispatchPageHeaderSettingsChange(b, detail) ==
  [ hdr  |-> IF Listening("hdr", "pageHeaderSettingsChange")
               THEN [b.hdr EXCEPT !.reverseHeaderColors = detail] ELSE b.hdr,
    dom  |-> b.dom,
    ham  |-> IF Listening("ham", "pageHeaderSettingsChange")
               THEN HamPageSettingsChange(b.ham, b.hdr, b.dom, detail) ELSE b.ham,
    item |-> IF Listening("item", "pageHeaderSettingsChange")
               THEN ItemPageSettingsChange(b.item, b.hdr, b.dom, detail) ELSE b.item,
    lastBroadcast |-> BoolAttr(detail),
    receivers |-> {o \in {"hdr", "ham", "item"} :
                      Listening(o, "pageHeaderSettingsChange")} ]

(***************************************************************************)
(* PageHeaderSettings                                                      *)
(***************************************************************************)
PageEffect_noDispatch(b, reverseHeaderColors) ==
  IF b.hdr.mounted
    THEN [b EXCEPT !.dom.attrReverse = BoolAttr(reverseHeaderColors)]
    ELSE b

(* The effect body: with the header element present, write the attribute   *)
(* and dispatch; otherwise nothing.                                        *)
PageEffect(b, reverseHeaderColors) ==
  IF b.hdr.mounted
    THEN DispatchPageHeaderSettingsChange(
           [b EXCEPT !.dom.attrReverse = BoolAttr(reverseHeaderColors)],
           reverseHeaderColors)
    ELSE b

PageCleanup_noReset(b) == b

(* The effect's cleanup: reset to false. *)
PageCleanup(b) ==
  IF b.hdr.mounted
    THEN DispatchPageHeaderSettingsChange([b EXCEPT !.dom.attrReverse = "false"], FALSE)
    ELSE b

SetBundle(b) ==
  /\ hdr' = b.hdr
  /\ dom' = b.dom
  /\ ham' = b.ham
  /\ item' = b.item
  /\ lastBroadcast' = b.lastBroadcast
  /\ receivers' = b.receivers

PageMount(v) ==
  /\ ~page.mounted
  /\ page' = [mounted |-> TRUE, reverseHeaderColors |-> v]
  /\ SetBundle(PageEffect(Bundle, v))
  /\ UNCHANGED <<scrollY, scrollPending, listeners, lastEval>>
  /\ UNCHANGED nonHeaderVars

PagePropChange(v) ==
  /\ page.mounted
  /\ v # page.reverseHeaderColors
  /\ page' = [page EXCEPT !.reverseHeaderColors = v]
  /\ SetBundle(PageEffect(PageCleanup(Bundle), v))
  /\ UNCHANGED <<scrollY, scrollPending, listeners, lastEval>>
  /\ UNCHANGED nonHeaderVars

PageUnmount ==
  /\ page.mounted
  /\ page' = [page EXCEPT !.mounted = FALSE]
  /\ SetBundle(PageCleanup(Bundle))
  /\ UNCHANGED <<scrollY, scrollPending, listeners, lastEval>>
  /\ UNCHANGED nonHeaderVars

(***************************************************************************)
(* GlobalHeaderClient                                                      *)
(***************************************************************************)
HeaderListeners == {<<"hdr", "pageHeaderSettingsChange">>, <<"hdr", "scroll">>}

(* First render, commit and both effects (the second one calls             *)
(* handleScroll eagerly).                                                  *)
HeaderMount(cfg, initialReverseColors) ==
  /\ ~hdr.mounted
  /\ LET h0 == [ mounted |-> TRUE, isTransparent |-> cfg.isTransparent,
                 hasContainer |-> cfg.hasContainer,
                 cssColorOnScroll |-> cfg.cssColorOnScroll,
                 cssBgOnScroll |-> cfg.cssBgOnScroll,
                 settingsColorOnScroll |-> cfg.settingsColorOnScroll,
                 settingsBgOnScroll |-> cfg.settingsBgOnScroll,
                 logoOnScroll |-> cfg.logoOnScroll,
                 isScrolled |-> FALSE, reverseHeaderColors |-> initialReverseColors,
                 rIsScrolled |-> FALSE, rReverse |-> initialReverseColors ]
         d0 == [ attrTransparent |-> BoolAttr(cfg.isTransparent),
                 attrReverse |-> BoolAttr(initialReverseColors),
                 backgroundColor |-> "transparent", scrolledClass |-> FALSE,
                 color |-> "", logoSrc |-> LogoSrc, originalSrc |-> "" ]
         r == handleScroll(h0, d0, scrollY)
     IN /\ hdr' = r.hdr
        /\ dom' = r.dom
        /\ lastEval' = [r.eval EXCEPT !.cause = "mount"]
  /\ listeners' = AddEventListeners(listeners, HeaderListeners)
  /\ receivers' = receivers \ {"hdr"}
  /\ UNCHANGED <<scrollY, scrollPending, ham, item, page, lastBroadcast>>
  /\ UNCHANGED nonHeaderVars

(* React re-render after a state change: the changed attributes are        *)
(* patched, and the scroll effect is torn down and run again when          *)
(* reverseHeaderColors (a dependency) changed.                             *)
HeaderCommit ==
  /\ hdr.mounted
  /\ hdr.reverseHeaderColors # hdr.rReverse \/ hdr.isScrolled # hdr.rIsScrolled
  /\ LET depChanged == hdr.reverseHeaderColors # hdr.rReverse
         h1 == [hdr EXCEPT !.rReverse = hdr.reverseHeaderColors,
                           !.rIsScrolled = hdr.isScrolled]
         d1 == [dom EXCEPT
                  !.attrReverse = IF depChanged
                                    THEN BoolAttr(hdr.reverseHeaderColors) ELSE @,
                  !.scrolledClass = IF hdr.isScrolled # hdr.rIsScrolled
                                      THEN hdr.isScrolled ELSE @]
         r == handleScroll(h1, d1, scrollY)
     IN IF depChanged
          THEN /\ hdr' = r.hdr
               /\ dom' = r.dom
               /\ lastEval' = [r.eval EXCEPT !.cause = "effect"]
          ELSE /\ hdr' = h1
               /\ dom' = d1
               /\ UNCHANGED lastEval
  /\ listeners' =
       IF hdr.reverseHeaderColors # hdr.rReverse
         THEN AddEventListeners(RemoveEventListeners(listeners, {<<"hdr", "scroll">>}),
                                {<<"hdr", "scroll">>})
         ELSE listeners
  /\ UNCHANGED <<scrollY, scrollPending, ham, item, page, lastBroadcast, receivers>>
  /\ UNCHANGED nonHeaderVars

HeaderUnmount ==
  /\ hdr.mounted
  /\ hdr' = NoHeader
  /\ dom' = NoDom
  /\ lastEval' = NoEval
  /\ listeners' = RemoveEventListeners(listeners, HeaderListeners)
  /\ UNCHANGED receivers
  /\ UNCHANGED <<scrollY, scrollPending, ham, item, page, lastBroadcast>>
  /\ UNCHANGED nonHeaderVars

(***************************************************************************)
(* HamburgerMenu, MenuItemClient: mount effects and teardown               *)
(***************************************************************************)
HamListeners == {<<"ham", "scroll">>, <<"ham", "pageHeaderSettingsChange">>}
ItemListeners == {<<"item", "scroll">>, <<"item", "pageHeaderSettingsChange">>}

HamMount ==
  /\ ~ham.mounted
  /\ ham' = HamUpdateReverseColors(
              HamHandleScroll([NoSubscriber EXCEPT !.mounted = TRUE], scrollY),
              hdr, dom)
  /\ listeners' = AddEventListeners(listeners, HamListeners)
  /\ receivers' = receivers \ {"ham"}
  /\ UNCHANGED <<scrollY, scrollPending, hdr, dom, lastEval, item, page, lastBroadcast>>
  /\ UNCHANGED nonHeaderVars

HamUnmount ==
  /\ ham.mounted
  /\ ham' = NoSubscriber
  /\ listeners' = RemoveEventListeners(listeners, HamListeners)
  /\ UNCHANGED receivers
  /\ UNCHANGED <<scrollY, scrollPending, hdr, dom, lastEval, item, page, lastBroadcast>>
  /\ UNCHANGED nonHeaderVars

ItemMount ==
  /\ ~item.mounted
  /\ item' = ItemHandleScroll(
               ItemUpdateReverseColors([NoSubscriber EXCEPT !.mounted = TRUE], hdr, dom),
               scrollY)
  /\ listeners' = AddEventListeners(listeners, ItemListeners)
  /\ receivers' = receivers \ {"item"}
  /\ UNCHANGED <<scrollY, scrollPending, hdr, dom, lastEval, ham, page, lastBroadcast>>
  /\ UNCHANGED nonHeaderVars

ItemUnmount ==
  /\ item.mounted
  /\ item' = NoSubscriber
  /\ listeners' = RemoveEventListeners(listeners, ItemListeners)
  /\ UNCHANGED receivers
  /\ UNCHANGED <<scrollY, scrollPending, hdr, dom, lastEval, ham, page, lastBroadcast>>
  /\ UNCHANGED nonHeaderVars

(***************************************************************************)
(* Scrolling                                                               *)
(***************************************************************************)
(* The user scrolls: the position changes and a notification is queued. *)
ScrollTo(y) ==
  /\ y # scrollY
  /\ scrollY' = y
  /\ scrollPending' = TRUE
  /\ UNCHANGED <<listeners, hdr, dom, lastEval, ham, item, page, lastBroadcast, receivers>>
  /\ UNCHANGED nonHeaderVars

(* The scroll event is dispatched: every registered scroll listener runs. *)
ScrollEvent ==
  /\ scrollPending
  /\ scrollPending' = FALSE
  /\ LET r == handleScroll(hdr, dom, scrollY)
     IN IF Listening("hdr", "scroll")
          THEN /\ hdr' = r.hdr
               /\ dom' = r.dom
               /\ lastEval' = [r.eval EXCEPT !.cause = "scroll"]
          ELSE UNCHANGED <<hdr, dom, lastEval>>
  /\ ham' = IF Listening("ham", "scroll") THEN HamHandleScroll(ham, scrollY) ELSE ham
  /\ item' = IF Listening("item", "scroll") THEN ItemHandleScroll(item, scrollY) ELSE item
  /\ UNCHANGED <<scrollY, listeners, page, lastBroadcast, receivers>>
  /\ UNCHANGED nonHeaderVars

(***************************************************************************)
(* buildPagePath                                                           *)
(***************************************************************************)
MaxPages == 3

PageIds == 1 .. MaxPages
NoId == 0                    \* null / undefined: a missing parent_id, a failed Map.get
MissingId == MaxPages + 1    \* an id no page of the map has

SlugChars == <<"a", "b", "c", "d", "e", "f">>
SlugOf(id) == <<SlugChars[id]>>

(* Array.prototype.join('/') over strings held as sequences of characters. *)
RECURSIVE Join(_)
Join(segments) ==
  IF segments = <<>> THEN <<>>
  ELSE IF Len(segments) = 1 THEN segments[1]
  ELSE segments[1] \o <<"/">> \o Join(Tail(segments))

MapGet_missingIsFirst(pm, id) ==
  IF id \in DOMAIN pm THEN id ELSE IF 1 \in DOMAIN pm THEN 1 ELSE NoId

(* pagesMap.get(id): the page's id when the map has it, undefined otherwise. *)
MapGet(pm, id) == IF id \in DOMAIN pm THEN id ELSE NoId

NoWalk ==
  [ status |-> "idle", pageId |-> NoId, currentPage |-> NoId, visitedIds |-> {},
    segments |-> <<>>, iterations |-> 0, cycleReported |-> FALSE, result |-> <<>> ]

WalkStart_sharedVisited(pageId, pm) ==
  [ status |-> "walking", pageId |-> pageId, currentPage |-> MapGet(pm, pageId),
    visitedIds |-> walk.visitedIds, segments |-> <<>>, iterations |-> 0,
    cycleReported |-> FALSE, result |-> <<>> ]

(* The declarations before the loop. *)
WalkStart(pageId, pm) ==
  [ status |-> "walking", pageId |-> pageId, currentPage |-> MapGet(pm, pageId),
    visitedIds |-> {}, segments |-> <<>>, iterations |-> 0,
    cycleReported |-> FALSE, result |-> <<>> ]

(* Leaving the loop: return '/' + segments.join('/'). *)
WalkReturn(w) ==
  [w EXCEPT !.status = "done", !.result = <<"/">> \o Join(w.segments)]

WalkIteration_noCycleGuard(w, pm) ==
  IF w.currentPage = NoId
    THEN WalkReturn(w)
    ELSE LET w1 == [w EXCEPT !.iterations = @ + 1,
                             !.segments = <<pm[w.currentPage].slug>> \o @]
         IN IF pm[w.currentPage].parent_id # NoId
              THEN [w1 EXCEPT !.currentPage = MapGet(pm, pm[w.currentPage].parent_id)]
              ELSE WalkReturn(w1)

(* The loop test and, when it passes, one execution of the loop body. *)
WalkIteration(w, pm) ==
  IF w.currentPage = NoId
    THEN WalkReturn(w)
    ELSE LET w0 == [w EXCEPT !.iterations = @ + 1]
         IN IF w.currentPage \in w.visitedIds
              THEN WalkReturn([w0 EXCEPT !.cycleReported = TRUE])
              ELSE LET w1 == [w0 EXCEPT !.visitedIds = @ \cup {w.currentPage},
                                        !.segments = <<pm[w.currentPage].slug>> \o @]
                   IN IF pm[w.currentPage].parent_id # NoId
                        THEN [w1 EXCEPT !.currentPage =
                                           MapGet(pm, pm[w.currentPage].parent_id)]
                        ELSE WalkReturn(w1)

RECURSIVE RunWalk(_, _)
RunWalk(w, pm) == IF w.status = "done" THEN w ELSE RunWalk(WalkIteration(w, pm), pm)

(* buildPagePath(pageId, pagesMap) as a value. *)
buildPagePath(pageId, pm) == RunWalk(WalkStart(pageId, pm), pm).result

(* A call of buildPagePath; calls are synchronous, one at a time. *)
StartWalk(pageId) ==
  /\ walk.status # "walking"
  /\ walk' = WalkStart(pageId, pagesMap)
  /\ UNCHANGED pagesMap
  /\ UNCHANGED nonPathVars

WalkStep ==
  /\ walk.status = "walking"
  /\ walk' = WalkIteration(walk, pagesMap)
  /\ UNCHANGED pagesMap
  /\ UNCHANGED nonPathVars

(* The page maps: every page has its own slug or an empty one, and a       *)
(* parent_id that is null, another page's (or its own) id, or a missing id. *)
PageMaps ==
  [ PageIds -> [ slug : {<<>>} \cup {SlugOf(i) : i \in PageIds},
                 parent_id : {NoId, MissingId} \cup PageIds ] ]

PathInit ==
  /\ pagesMap \in { pm \in PageMaps :
                      \A i \in PageIds : pm[i].slug \in {<<>>, SlugOf(i)} }
  /\ walk = NoWalk

PathIdle ==
  /\ pagesMap = <<>>
  /\ walk = NoWalk

PathNext ==
  \/ \E pageId \in PageIds \cup {MissingId} : StartWalk(pageId)
  \/ WalkStep

(***************************************************************************)
(* frontspaceGraphQLFetch, fetchMenuBySlug, fetchAllPages, fetchHuvudmeny  *)
(***************************************************************************)
MaxCmsPages == 2

CmsPageIds == 1 .. MaxCmsPages

(* How a request to the GraphQL endpoint can end. *)
FetchOutcomes == {"ok", "httpError", "graphqlErrors", "networkError"}

(* frontspaceGraphQLFetch returns result.data on a 2xx response without     *)
(* errors and throws otherwise.                                             *)
GraphQLFetchThrows(outcome) == outcome # "ok"

Null == [kind |-> "null"]

(* fetchMenuBySlug: data.menuBySlug, or null when it is missing or the      *)
(* fetch threw.                                                             *)
fetchMenuBySlug(outcome, c) ==
  IF GraphQLFetchThrows(outcome) THEN Null ELSE c.menu

fetchAllPages_unfiltered(outcome, c) ==
  IF GraphQLFetchThrows(outcome) THEN <<>> ELSE c.pages

(* fetchAllPages: the published pages, or [] when the fetch threw. *)
fetchAllPages(outcome, c) ==
  IF GraphQLFetchThrows(outcome)
    THEN <<>>
    ELSE SelectSeq(c.pages, LAMBDA pg : pg.status = "published")

(* new Map(allPages.map(page => [page.id, page])): a later entry wins. *)
PagesMapOf(allPages) ==
  [ id \in {allPages[i].id : i \in DOMAIN allPages} |->
      allPages[CHOOSE i \in DOMAIN allPages :
                  /\ allPages[i].id = id
                  /\ \A j \in DOMAIN allPages : allPages[j].id = id => j <= i] ]

RECURSIVE enrichMenuItemsWithPaths(_, _)
enrichMenuItemsWithPaths(menuItems, pm) ==
  [ i \in DOMAIN menuItems |->
      LET it == menuItems[i]
          withUrl == IF it.link_type = "internal" /\ it.page_id # NoId
                       THEN [it EXCEPT !.url = buildPagePath(it.page_id, pm)]
                       ELSE it
      IN IF Len(it.children) > 0
           THEN [withUrl EXCEPT !.children = enrichMenuItemsWithPaths(it.children, pm)]
           ELSE withUrl ]

(* enrichMenuItemsWithPaths on objects: the heap maps a reference to the    *)
(* item object it names, children are sequences of references. A call      *)
(* returns the heap it leaves and the references of the array it returns.  *)
NewRef(heap) == Cardinality(DOMAIN heap) + 1

RECURSIVE EnrichItems_inPlace(_, _, _)
EnrichItems_inPlace(heap, refs, pm) ==
  IF refs = <<>>
    THEN [heap |-> heap, refs |-> <<>>]
    ELSE LET r == Head(refs)
             it == heap[r]
             h2 == IF it.link_type = "internal" /\ it.page_id # NoId
                     THEN [heap EXCEPT ![r].url = buildPagePath(it.page_id, pm)]
                     ELSE heap
             kids == IF Len(it.children) > 0
                       THEN EnrichItems_inPlace(h2, it.children, pm)
                       ELSE [heap |-> h2, refs |-> it.children]
             h3 == [kids.heap EXCEPT ![r].children = kids.refs]
             rest == EnrichItems_inPlace(h3, Tail(refs), pm)
         IN [heap |-> rest.heap, refs |-> <<r>> \o rest.refs]

RECURSIVE EnrichItems(_, _, _)
EnrichItems(heap, refs, pm) ==
  IF refs = <<>>
    THEN [heap |-> heap, refs |-> <<>>]
    ELSE LET it == heap[Head(refs)]
             enrichedItem == NewRef(heap)
             h1 == heap @@ (enrichedItem :> it)                \* { ...item }
             h2 == IF it.link_type = "internal" /\ it.page_id # NoId
                     THEN [h1 EXCEPT ![enrichedItem].url = buildPagePath(it.page_id, pm)]
                     ELSE h1
             kids == IF Len(it.children) > 0
                       THEN EnrichItems(h2, it.children, pm)
                       ELSE [heap |-> h2, refs |-> it.children]
             h3 == [kids.heap EXCEPT ![enrichedItem].children = kids.refs]
             rest == EnrichItems(h3, Tail(refs), pm)
         IN [heap |-> rest.heap, refs |-> <<enrichedItem>> \o rest.refs]

(* The body of fetchHuvudmeny after Promise.all has resolved. *)
HuvudmenyResult(menu, allPages) ==
  IF menu.kind = "null" \/ ~menu.hasItems
    THEN menu
    ELSE [menu EXCEPT !.items = enrichMenuItemsWithPaths(menu.items, PagesMapOf(allPages))]

NoCall ==
  [ status |-> "idle", menuFetch |-> "none", pagesFetch |-> "none",
    menu |-> Null, allPages |-> <<>>, result |-> Null ]

(* fetchHuvudmeny starts both fetches. *)
HuvudmenyCall ==
  /\ hv.status # "fetching"
  /\ hv' = [NoCall EXCEPT !.status = "fetching",
                          !.menuFetch = "pending", !.pagesFetch = "pending"]
  /\ UNCHANGED cms
  /\ UNCHANGED nonMenuVars

MenuFetchSettles(outcome) ==
  /\ hv.status = "fetching" /\ hv.menuFetch = "pending"
  /\ hv' = [hv EXCEPT !.menuFetch = outcome, !.menu = fetchMenuBySlug(outcome, cms)]
  /\ UNCHANGED cms
  /\ UNCHANGED nonMenuVars

PagesFetchSettles(outcome) ==
  /\ hv.status = "fetching" /\ hv.pagesFetch = "pending"
  /\ hv' = [hv EXCEPT !.pagesFetch = outcome, !.allPages = fetchAllPages(outcome, cms)]
  /\ UNCHANGED cms
  /\ UNCHANGED nonMenuVars

(* Both promises have resolved: the rest of fetchHuvudmeny runs. *)
HuvudmenyReturn ==
  /\ hv.status = "fetching" /\ hv.menuFetch # "pending" /\ hv.pagesFetch # "pending"
  /\ hv' = [hv EXCEPT !.status = "done", !.result = HuvudmenyResult(hv.menu, hv.allPages)]
  /\ UNCHANGED cms
  /\ UNCHANGED nonMenuVars

Leaf(id, link_type, page_id, url) ==
  [ id |-> id, link_type |-> link_type, page_id |-> page_id, url |-> url,
    children |-> <<>> ]

CmsMenus ==
  { Null,
    [kind |-> "menu", hasItems |-> FALSE, items |-> <<>>],
    [kind |-> "menu", hasItems |-> TRUE,
     items |-> << [Leaf(1, "internal", 1, <<"/", "x">>) EXCEPT
                     !.children = <<Leaf(2, "internal", 2, <<"/", "y">>)>>],
                  Leaf(3, "external", NoId, <<"h", ":", "/", "/", "e">>) >>],
    [kind |-> "menu", hasItems |-> TRUE,
     items |-> << Leaf(1, "none", NoId, <<>>),
                  Leaf(2, "internal", MaxCmsPages + 1, <<"/", "z">>) >>] }

CmsPages ==
  { pages \in [ CmsPageIds -> [ id : CmsPageIds, slug : {SlugOf(i) : i \in CmsPageIds},
                                parent_id : {NoId} \cup CmsPageIds,
                                status : {"published", "draft"} ] ] :
      \A i \in CmsPageIds : pages[i].id = i /\ pages[i].slug = SlugOf(i) }

MenuInit ==
  /\ cms \in [menu : CmsMenus, pages : CmsPages]
  /\ hv = NoCall

MenuIdle ==
  /\ cms = [menu |-> Null, pages |-> <<>>]
  /\ hv = NoCall

MenuNext ==
  \/ HuvudmenyCall
  \/ \E outcome \in FetchOutcomes : MenuFetchSettles(outcome)
  \/ \E outcome \in FetchOutcomes : PagesFetchSettles(outcome)
  \/ HuvudmenyReturn

(***************************************************************************)
(* The content endpoints: fetchPageBySlug, fetchPosts, fetchPostBySlug,    *)
(* fetchHeader, fetchFooter, fetchFormById (with fetchMenuBySlug and       *)
(* fetchAllPages above)                                                    *)
(***************************************************************************)
MaxPosts == 2

ContentEndpoints ==
  { "fetchPageBySlug", "fetchAllPages", "fetchPosts", "fetchPostBySlug",
    "fetchMenuBySlug", "fetchHeader", "fetchFooter", "fetchFormById" }

ListEndpoints == {"fetchAllPages", "fetchPosts"}

(* An exception that leaves the endpoint. *)
Thrown == [kind |-> "thrown"]

(* if (entity && entity.content && !entity.content.blocks) blocks = [] *)
NormaliseBlocks(entity) ==
  IF entity.kind # "null" /\ entity.blocks = "null"
    THEN [entity EXCEPT !.blocks = "[]"]
    ELSE entity

fetchFooter(outcome, b) ==
  IF GraphQLFetchThrows(outcome) THEN Null ELSE NormaliseBlocks(b.entity)

fetchHeader(outcome, b) ==
  IF GraphQLFetchThrows(outcome) THEN Null ELSE NormaliseBlocks(b.entity)

fetchPageBySlug(outcome, b) ==
  IF GraphQLFetchThrows(outcome) THEN Null ELSE b.entity

NoPosts == [posts |-> <<>>, total |-> 0]

fetchPosts(outcome, b) ==
  IF GraphQLFetchThrows(outcome)
    THEN NoPosts
    ELSE LET publishedPosts == SelectSeq(b.list, LAMBDA post : post.status = "published")
         IN [posts |-> publishedPosts, total |-> Len(publishedPosts)]

fetchPostBySlug_rethrows(outcome, b) ==
  IF GraphQLFetchThrows(outcome)
    THEN Thrown
    ELSE IF b.entity.kind # "null" /\ b.entity.status # "published"
      THEN Null
      ELSE b.entity

fetchPostBySlug(outcome, b) ==
  IF GraphQLFetchThrows(outcome)
    THEN Null
    ELSE IF b.entity.kind # "null" /\ b.entity.status # "published"
      THEN Null
      ELSE b.entity

fetchFormById(outcome, b) ==
  IF GraphQLFetchThrows(outcome) THEN Null ELSE b.entity

(* What a call of the endpoint completes with. *)
EndpointResult(endpoint, outcome, b) ==
  CASE endpoint = "fetchPageBySlug" -> fetchPageBySlug(outcome, b)
    [] endpoint = "fetchAllPages" ->
         [kind |-> "array", items |-> fetchAllPages(outcome, [menu |-> Null, pages |-> b.list])]
    [] endpoint = "fetchPosts" -> fetchPosts(outcome, b)
    [] endpoint = "fetchPostBySlug" -> fetchPostBySlug(outcome, b)
    [] endpoint = "fetchMenuBySlug" -> fetchMenuBySlug(outcome, [menu |-> b.entity, pages |-> <<>>])
    [] endpoint = "fetchHeader" -> fetchHeader(outcome, b)
    [] endpoint = "fetchFooter" -> fetchFooter(outcome, b)
    [] endpoint = "fetchFormById" -> fetchFormById(outcome, b)

NoContentCall ==
  [ status |-> "idle", endpoint |-> "none", outcome |-> "none", result |-> Null ]

(* An endpoint is called: the request is sent. *)
ContentCall(endpoint) ==
  /\ content.status # "awaiting"
  /\ content' = [NoContentCall EXCEPT !.status = "awaiting", !.endpoint = endpoint]
  /\ UNCHANGED backend
  /\ UNCHANGED nonContentVars

(* The request ends: the rest of the endpoint runs. *)
ContentSettles(outcome) ==
  /\ content.status = "awaiting"
  /\ LET r == EndpointResult(content.endpoint, outcome, backend)
     IN content' = [content EXCEPT !.status = IF r = Thrown THEN "threw" ELSE "returned",
                                   !.outcome = outcome,
                                   !.result = r]
  /\ UNCHANGED backend
  /\ UNCHANGED nonContentVars

Entities ==
  {Null} \cup [ kind : {"entity"}, status : {"published", "draft"}, blocks : {"null", "[]"} ]

Lists ==
  UNION { [ 1 .. n -> [ kind : {"entity"}, status : {"published", "draft"} ] ] :
            n \in 0 .. MaxPosts }

ContentInit ==
  /\ backend \in [entity : Entities, list : Lists]
  /\ content = NoContentCall

ContentIdle ==
  /\ backend = [entity |-> Null, list |-> <<>>]
  /\ content = NoContentCall

ContentNext ==
  \/ \E endpoint \in ContentEndpoints : ContentCall(endpoint)
  \/ \E outcome \in FetchOutcomes : ContentSettles(outcome)

(***************************************************************************)
(* fetchStandings and fetchTeamPlayers                                     *)
(***************************************************************************)
CACHE_TTL == 300000
MaxTicks == 2
MaxRequests == 3

(* Two callers, so that calls can overlap. *)
Callers == {"c1", "c2"}
LeagueIds == {<<"1">>, <<"2">>}
TeamIds == {<<"7">>}
ClockSteps == {1, CACHE_TTL - 1}

StandingsKey(leagueId) == <<"s", "_">> \o leagueId
PlayersKey(leagueId, teamId) == <<"p", "_">> \o leagueId \o <<"_">> \o teamId

CacheGet(cache, key) == IF key \in DOMAIN cache THEN cache[key] ELSE Null

CacheSet_keepsFirst(cache, key, entry) ==
  IF key \in DOMAIN cache THEN cache ELSE [ k \in DOMAIN cache \cup {key} |-> IF k = key THEN entry ELSE cache[k] ]

CacheSet(cache, key, entry) ==
  [ k \in DOMAIN cache \cup {key} |-> IF k = key THEN entry ELSE cache[k] ]

IsFresh_never_expires(cached, t) == cached.kind # "null"

(* cached && Date.now() - cached.timestamp < CACHE_TTL *)
IsFresh(cached, t) == cached.kind # "null" /\ t - cached.timestamp < CACHE_TTL

NoCaller ==
  [ status |-> "idle", fn |-> "none", key |-> <<>>, result |-> 0, fromCache |-> FALSE ]

CacheOf(fn) == IF fn = "standings" THEN standingsCache ELSE playersCache
KeyOf(fn, leagueId, teamId) ==
  IF fn = "standings" THEN StandingsKey(leagueId) ELSE PlayersKey(leagueId, teamId)

(* The arguments a call was made with. *)
ArgsOf(fn, leagueId, teamId) ==
  IF fn = "standings" THEN <<leagueId>> ELSE <<leagueId, teamId>>

(* How a call ends when no data can be returned: fetchStandings throws,     *)
(* fetchTeamPlayers logs and returns null.                                  *)
FailedCall(c) ==
  IF c.fn = "standings"
    THEN [c EXCEPT !.status = "threw", !.result = 0]
    ELSE [c EXCEPT !.status = "returned", !.result = 0]

(* The synchronous part of a call: the secret check, the cache lookup and,  *)
(* on a miss, the request.                                                  *)
CallFetch(c, fn, leagueId, teamId) ==
  /\ calls[c].status # "awaiting"
  /\ LET key == KeyOf(fn, leagueId, teamId)
         cached == CacheGet(CacheOf(fn), key)
         started == [NoCaller EXCEPT !.fn = fn, !.key = key]
     IN IF ~secret
          THEN /\ calls' = [calls EXCEPT ![c] = FailedCall(started)]
               /\ UNCHANGED requests
          ELSE IF IsFresh(cached, now)
            THEN /\ calls' = [calls EXCEPT ![c] = [started EXCEPT !.status = "returned",
                                                                  !.result = cached.data,
                                                                  !.fromCache = TRUE]]
                 /\ UNCHANGED requests
            ELSE /\ requests < MaxRequests
                 /\ calls' = [calls EXCEPT ![c] = [started EXCEPT !.status = "awaiting"]]
                 /\ requests' = requests + 1
  /\ origin' = [origin EXCEPT !.asked[c] = ArgsOf(fn, leagueId, teamId)]
  /\ UNCHANGED <<now, ticks, secret, standingsCache, playersCache, responses>>
  /\ UNCHANGED nonCacheVars

(* The response arrives with a 2xx status and a body: it is parsed, cached  *)
(* under the call's key with the current time, and returned.                *)
ResponseOk(c) ==
  /\ calls[c].status = "awaiting"
  /\ LET data == responses + 1
         entry == [kind |-> "entry", data |-> data, timestamp |-> now]
     IN /\ responses' = data
        /\ calls' = [calls EXCEPT ![c] = [@ EXCEPT !.status = "returned", !.result = data]]
        /\ IF calls[c].fn = "standings"
             THEN /\ standingsCache' = CacheSet(standingsCache, calls[c].key, entry)
                  /\ UNCHANGED playersCache
             ELSE /\ playersCache' = CacheSet(playersCache, calls[c].key, entry)
                  /\ UNCHANGED standingsCache
  /\ origin' = [origin EXCEPT !.stored = CacheSet(@, <<calls[c].fn, calls[c].key>>,
                                                   origin.asked[c])]
  /\ UNCHANGED <<now, ticks, secret, requests>>
  /\ UNCHANGED nonCacheVars

ResponseFails_cachesNull(c) ==
  /\ calls[c].status = "awaiting"
  /\ calls' = [calls EXCEPT ![c] = FailedCall(@)]
  /\ LET entry == [kind |-> "entry", data |-> 0, timestamp |-> now]
     IN IF calls[c].fn = "standings"
          THEN /\ standingsCache' = CacheSet(standingsCache, calls[c].key, entry)
               /\ UNCHANGED playersCache
          ELSE /\ playersCache' = CacheSet(playersCache, calls[c].key, entry)
               /\ UNCHANGED standingsCache
  /\ UNCHANGED <<now, ticks, secret, requests, responses, origin>>
  /\ UNCHANGED nonCacheVars

(* The response has a non-ok status, or fetch / json() threw. *)
ResponseFails(c) ==
  /\ calls[c].status = "awaiting"
  /\ calls' = [calls EXCEPT ![c] = FailedCall(@)]
  /\ UNCHANGED <<now, ticks, secret, standingsCache, playersCache, requests, responses, origin>>
  /\ UNCHANGED nonCacheVars

Tick(d) ==
  /\ ticks < MaxTicks
  /\ now' = now + d
  /\ ticks' = ticks + 1
  /\ UNCHANGED <<secret, standingsCache, playersCache, calls, requests, responses, origin>>
  /\ UNCHANGED nonCacheVars

CacheInit ==
  /\ now = 0
  /\ ticks = 0
  /\ secret \in BOOLEAN
  /\ standingsCache = <<>>
  /\ playersCache = <<>>
  /\ calls = [c \in Callers |-> NoCaller]
  /\ requests = 0
  /\ responses = 0
  /\ origin = [asked |-> [c \in Callers |-> <<>>], stored |-> <<>>]

CacheIdle ==
  /\ now = 0
  /\ ticks = 0
  /\ secret = FALSE
  /\ standingsCache = <<>>
  /\ playersCache = <<>>
  /\ calls = <<>>
  /\ requests = 0
  /\ responses = 0
  /\ origin = <<>>

CacheNext ==
  \/ \E c \in Callers, fn \in {"standings", "players"},
        leagueId \in LeagueIds, teamId \in TeamIds : CallFetch(c, fn, leagueId, teamId)
  \/ \E c \in Callers : ResponseOk(c)
  \/ \E c \in Callers : ResponseFails(c)
  \/ \E d \in ClockSteps : Tick(d)

(* Ids as the signatures admit them (string | number): any string, a '_'    *)
(* inside it included.                                                      *)
KeyLeagueIds == {<<"1">>, <<"1", "_", "7">>}
KeyTeamIds == {<<"7">>, <<"7", "_", "7">>}

KeysNext ==
  \/ \E c \in Callers, fn \in {"standings", "players"},
        leagueId \in KeyLeagueIds, teamId \in KeyTeamIds : CallFetch(c, fn, leagueId, teamId)
  \/ \E c \in Callers : ResponseOk(c)
  \/ \E c \in Callers : ResponseFails(c)

(***************************************************************************)
(* middleware, lookupRedirect, applyPatternRedirect                        *)
(***************************************************************************)
REDIRECT_CACHE_TTL_seconds == 5 * 60

REDIRECT_CACHE_TTL == 5 * 60 * 1000
MaxMwTicks == 2

StartsWith(s, prefix) ==
  Len(s) >= Len(prefix) /\ SubSeq(s, 1, Len(prefix)) = prefix

Includes(s, sub) ==
  \E i \in 1 .. (Len(s) - Len(sub) + 1) : SubSeq(s, i, i + Len(sub) - 1) = sub

(* String.prototype.replace(pattern, replacement) with a string pattern:    *)
(* the first occurrence only.                                               *)
ReplaceFirst(s, pattern, replacement) ==
  IF ~Includes(s, pattern)
    THEN s
    ELSE LET i == CHOOSE k \in 1 .. (Len(s) - Len(pattern) + 1) :
                    /\ SubSeq(s, k, k + Len(pattern) - 1) = pattern
                    /\ \A j \in 1 .. (k - 1) : SubSeq(s, j, j + Len(pattern) - 1) # pattern
         IN SubSeq(s, 1, i - 1) \o replacement \o SubSeq(s, i + Len(pattern), Len(s))

applyPatternRedirect(sourcePattern, destPattern, actualPath) ==
  LET sourceBase == ReplaceFirst(sourcePattern, <<"/", "*">>, <<>>)
      destBase == ReplaceFirst(destPattern, <<"/", "*">>, <<>>)
      captured == SubSeq(actualPath, Len(sourceBase) + 1, Len(actualPath))
  IN destBase \o captured

(* The paths the middleware returns NextResponse.next() for at once. *)
IsSkippedPath(pathname) ==
  \/ StartsWith(pathname, <<"/", "_", "n", "e", "x", "t">>)
  \/ StartsWith(pathname, <<"/", "a", "p", "i">>)
  \/ StartsWith(pathname, <<"/", "n", "e", "x", "t">>)
  \/ Includes(pathname, <<".">>)
  \/ pathname = <<"/", "f", "a", "v", "i", "c", "o", "n", ".", "i", "c", "o">>

RequestPaths ==
  { <<"/", "a">>,
    <<"/", "b", "/", "x">>,
    <<"/", "_", "n", "e", "x", "t", "/", "s">>,
    <<"/", "a", "p", "i", "/", "f">>,
    <<"/", "n", "e", "x", "t">>,
    <<"/", "a", ".", "j", "s">> }

(* A destination new URL(destination, request.url) throws on. *)
InvalidUrl == <<"h", "t", "t", "p", ":", "/", "/">>

NextResponseNext == [kind |-> "next"]
NextResponseRedirect(destination, statusCode) ==
  [kind |-> "redirect", destination |-> destination, status |-> statusCode]

RedirectKey(path) == <<"s", ":">> \o path

(* The try block of middleware after lookupRedirect has returned. *)
RespondTo(redirect, pathname) ==
  IF redirect.kind = "null"
    THEN NextResponseNext
    ELSE LET destination ==
               IF redirect.is_pattern
                 THEN applyPatternRedirect(redirect.source_path,
                                           redirect.destination_path, pathname)
                 ELSE redirect.destination_path
             statusCode == IF redirect.redirect_type = "301" THEN 301 ELSE 302
         IN IF destination = InvalidUrl
              THEN NextResponseNext       \* new URL throws: caught, falls through
              ELSE NextResponseRedirect(destination, statusCode)

LookupFailed_propagates == Thrown

(* lookupRedirect rejected (network error, timeout, unparsable body): the   *)
(* catch logs, and the function falls through to NextResponse.next().       *)
LookupFailed == NextResponseNext

NoRequest ==
  [ status |-> "idle", pathname |-> <<>>, lookup |-> "none",
    found |-> Null, response |-> Null ]

(* middleware(request) up to its first await: the skip test and             *)
(* lookupRedirect's cache check; on a miss the API is asked.                *)
MwRequest(pathname) ==
  /\ mw.status # "awaiting"
  /\ LET started == [NoRequest EXCEPT !.pathname = pathname]
         cached == CacheGet(redirectCache, RedirectKey(pathname))
     IN mw' =
          IF IsSkippedPath(pathname)
            THEN [started EXCEPT !.status = "done", !.lookup = "skipped",
                                 !.response = NextResponseNext]
          ELSE IF cached.kind # "null" /\ cached.expires > mwNow
            THEN [started EXCEPT !.status = "done", !.lookup = "cached",
                                 !.found = cached.redirect,
                                 !.response = RespondTo(cached.redirect, pathname)]
            ELSE [started EXCEPT !.status = "awaiting"]
  /\ UNCHANGED <<redirectApi, redirectCache, mwNow, mwTicks>>
  /\ UNCHANGED nonMwVars

LookupOutcomes == {"ok", "notOk", "networkError", "timeout", "invalidJson"}

(* The API request ends: the rest of lookupRedirect and of middleware. *)
MwLookupSettles(outcome) ==
  /\ mw.status = "awaiting"
  /\ LET key == RedirectKey(mw.pathname)
         redirect == redirectApi[mw.pathname]      \* data.match || null
         entry(r) == [kind |-> "entry", redirect |-> r,
                      expires |-> mwNow + REDIRECT_CACHE_TTL]
     IN CASE outcome = "ok" ->
               /\ redirectCache' = CacheSet(redirectCache, key, entry(redirect))
               /\ mw' = [mw EXCEPT !.status = "done",
                                   !.lookup = IF redirect.kind = "null" THEN "noMatch" ELSE "match",
                                   !.found = redirect,
                                   !.response = RespondTo(redirect, mw.pathname)]
          [] outcome = "notOk" ->
               /\ redirectCache' = CacheSet(redirectCache, key, entry(Null))
               /\ mw' = [mw EXCEPT !.status = "done", !.lookup = "notOk",
                                   !.response = RespondTo(Null, mw.pathname)]
          [] OTHER ->
               /\ UNCHANGED redirectCache
               /\ mw' = [mw EXCEPT !.status = "done", !.lookup = outcome,
                                   !.response = LookupFailed]
  /\ UNCHANGED <<redirectApi, mwNow, mwTicks>>
  /\ UNCHANGED nonMwVars

MwTick(d) ==
  /\ mwTicks < MaxMwTicks
  /\ mwNow' = mwNow + d
  /\ mwTicks' = mwTicks + 1
  /\ UNCHANGED <<redirectApi, redirectCache, mw>>
  /\ UNCHANGED nonMwVars

Redirect(source_path, destination_path, redirect_type, is_pattern) ==
  [ kind |-> "redirect", source_path |-> source_path,
    destination_path |-> destination_path,
    redirect_type |-> redirect_type, is_pattern |-> is_pattern ]

RedirectTables ==
  { [ path \in RequestPaths |->
        IF path = <<"/", "a">> THEN forA
        ELSE IF path = <<"/", "b", "/", "x">> THEN forB
        ELSE Redirect(path, <<"/", "z">>, "301", FALSE) ] :
      forA \in { Null,
                 Redirect(<<"/", "a">>, <<"/", "z">>, "301", FALSE),
                 Redirect(<<"/", "a">>, InvalidUrl, "302", FALSE) },
      forB \in { Null,
                 Redirect(<<"/", "b", "/", "*">>, <<"/", "c", "/", "*">>, "302", TRUE) } }

MwInit ==
  /\ redirectApi \in RedirectTables
  /\ redirectCache = <<>>
  /\ mwNow = 0
  /\ mwTicks = 0
  /\ mw = NoRequest

MwIdle ==
  /\ redirectApi = <<>>
  /\ redirectCache = <<>>
  /\ mwNow = 0
  /\ mwTicks = 0
  /\ mw = NoRequest

MwNext ==
  \/ \E pathname \in RequestPaths : MwRequest(pathname)
  \/ \E outcome \in LookupOutcomes : MwLookupSettles(outcome)
  \/ \E d \in {1, REDIRECT_CACHE_TTL - 1} : MwTick(d)

(***************************************************************************)
(* POST: the form submission handler                                       *)
(***************************************************************************)
FormSubmissionFailed == "Form submission failed"
InternalServerError == "Internal server error"
UpstreamMessage == "upstream message"
NoMessage == ""              \* a missing, null or empty message: falsy

(* a || b on messages *)
OrElse(a, b) == IF a = NoMessage THEN b ELSE a

JsonError(error, statusCode) ==
  [status |-> statusCode, body |-> [kind |-> "error", error |-> error]]

JsonSuccess(message) ==
  [status |-> 200, body |-> [kind |-> "success", success |-> TRUE, message |-> message]]

TransportFailure_unhandled == [status |-> 0, body |-> Thrown]

(* The catch block: log and answer 500. *)
TransportFailure == JsonError(InternalServerError, 500)

(* result.errors[0]?.message *)
FirstErrorMessage(errors) ==
  IF Len(errors.list) = 0 THEN NoMessage ELSE errors.list[1]

(* The handler from 'const result = await response.json()' on; a result     *)
(* that is JSON null makes result.errors throw.                             *)
RespondToResult(result) ==
  IF result.kind = "null"
    THEN TransportFailure
  ELSE IF result.errors.present
    THEN JsonError(OrElse(FirstErrorMessage(result.errors), FormSubmissionFailed), 400)
  ELSE IF ~(result.submitForm.kind # "null" /\ result.submitForm.success)
    THEN JsonError(OrElse(IF result.submitForm.kind = "null"
                            THEN NoMessage
                            ELSE result.submitForm.message,
                          FormSubmissionFailed), 400)
    ELSE JsonSuccess(result.submitForm.message)

NoFormRequest ==
  [ status |-> "idle", bodyParsed |-> FALSE, sent |-> Null,
    upstream |-> "none", result |-> Null, response |-> Null ]

(* POST(request) up to the upstream fetch: request.json() and the mutation  *)
(* variables.                                                               *)
FormPost(bodyOk, storeId, formId, userAgent) ==
  /\ form.status # "awaiting"
  /\ form' =
       IF ~bodyOk
         THEN [NoFormRequest EXCEPT !.status = "done", !.response = TransportFailure]
         ELSE [NoFormRequest EXCEPT !.status = "awaiting", !.bodyParsed = TRUE,
                                    !.sent = [kind |-> "variables", storeId |-> storeId,
                                              formId |-> formId, userAgent |-> userAgent]]
  /\ UNCHANGED nonFormVars

UpstreamOutcomes == {"json", "networkError", "invalidJson"}

UpstreamErrors ==
  { [present |-> FALSE, list |-> <<>>],
    [present |-> TRUE, list |-> <<>>],
    [present |-> TRUE, list |-> <<NoMessage>>],
    [present |-> TRUE, list |-> <<UpstreamMessage>>] }

UpstreamResults ==
  {Null} \cup
  [ kind : {"object"}, errors : UpstreamErrors,
    submitForm : {Null} \cup [ kind : {"payload"}, success : BOOLEAN,
                               message : {NoMessage, UpstreamMessage} ] ]

(* The upstream request ends: the rest of the handler. *)
FormUpstreamSettles(outcome, result) ==
  /\ form.status = "awaiting"
  /\ form' =
       IF outcome = "json"
         THEN [form EXCEPT !.status = "done", !.upstream = outcome, !.result = result,
                           !.response = RespondToResult(result)]
         ELSE [form EXCEPT !.status = "done", !.upstream = outcome,
                           !.response = TransportFailure]
  /\ UNCHANGED nonFormVars

FormInit == form = NoFormRequest

FormNext ==
  \/ \E bodyOk \in BOOLEAN, storeId \in {"s1", "s2"}, formId \in {"f1", "f2"},
        userAgent \in {NoMessage, "ua"} : FormPost(bodyOk, storeId, formId, userAgent)
  \/ \E outcome \in UpstreamOutcomes, result \in UpstreamResults :
        FormUpstreamSettles(outcome, result)

(***************************************************************************)
(* MenuItemClient: hover state and the colours of its link                 *)
(***************************************************************************)
NoColor == ""                \* an undefined or empty colour: falsy

(* a || b on colours *)
OrColor(a, b) == IF a = NoColor THEN b ELSE a

currentTextColor(s, props) ==
  IF ShouldUseReverseColors(s)
    THEN OrColor(props.colors.reverseTextColor,
                 OrColor(props.colors.textColor, OrColor(props.textColor, "inherit")))
    ELSE OrColor(props.colors.textColor, OrColor(props.textColor, "inherit"))

currentHoverTextColor_noReverse(s, props) ==
  OrColor(props.colors.hoverTextColor, currentTextColor(s, props))

currentHoverTextColor(s, props) ==
  IF ShouldUseReverseColors(s)
    THEN OrColor(props.colors.reverseHoverTextColor,
                 OrColor(props.colors.hoverTextColor, currentTextColor(s, props)))
    ELSE OrColor(props.colors.hoverTextColor, currentTextColor(s, props))

(* style.color of the rendered link *)
LinkColor(s, hovered, props) ==
  IF hovered THEN currentHoverTextColor(s, props) ELSE currentTextColor(s, props)

handleMouseEnter ==
  /\ item.mounted /\ ~isHovered
  /\ isHovered' = TRUE
  /\ UNCHANGED itemProps
  /\ UNCHANGED nonItemViewVars

handleMouseLeave ==
  /\ item.mounted /\ isHovered
  /\ isHovered' = FALSE
  /\ UNCHANGED itemProps
  /\ UNCHANGED nonItemViewVars

AllColors ==
  [ textColor |-> "text", hoverTextColor |-> "hover",
    reverseTextColor |-> "reverse", reverseHoverTextColor |-> "reverseHover" ]

(* The props a menu item may be given: every colour configured, only the    *)
(* plain pair, only the reverse pair, or no colours but the legacy prop.    *)
ItemPropsSet ==
  { [ colors |-> AllColors, textColor |-> NoColor ],
    [ colors |-> [AllColors EXCEPT !.reverseTextColor = NoColor,
                                   !.reverseHoverTextColor = NoColor],
      textColor |-> NoColor ],
    [ colors |-> [AllColors EXCEPT !.textColor = NoColor, !.hoverTextColor = NoColor],
      textColor |-> NoColor ],
    [ colors |-> [ textColor |-> NoColor, hoverTextColor |-> NoColor,
                   reverseTextColor |-> NoColor, reverseHoverTextColor |-> NoColor ],
      textColor |-> "legacy" ] }

ItemViewInit ==
  /\ itemProps \in ItemPropsSet
  /\ isHovered = FALSE

ItemViewIdle ==
  /\ itemProps = [ colors |-> AllColors, textColor |-> NoColor ]
  /\ isHovered = FALSE

(* The menu item in its header: one item instance, mounted once. *)
ItemViewNext ==
  \/ \E cfg \in HeaderConfigs, b \in BOOLEAN : HeaderMount(cfg, b)
  \/ HeaderCommit
  \/ ItemMount
  \/ \E v \in BOOLEAN : PageMount(v)
  \/ PageUnmount
  \/ \E y \in ScrollPositions : ScrollTo(y)
  \/ ScrollEvent
  \/ handleMouseEnter
  \/ handleMouseLeave

(***************************************************************************)
(* HamburgerMenu: the drawer                                               *)
(***************************************************************************)
MaxParents == 4

(* The menu items with children: each has an expand button in the drawer. *)
ParentItems == 1 .. MaxParents

Keys == {"Escape", "Enter"}

NoDrawer ==
  [ mounted |-> FALSE, isOpen |-> FALSE, expandedItems |-> {}, lastEvent |-> "none" ]

BodyOverflowEffect_stuck(isOpen) == "hidden"

(* The body of the effect on [isOpen]. *)
BodyOverflowEffect(isOpen) == IF isOpen THEN "hidden" ELSE ""

(* The re-render after an event: when isOpen changed, the effect's cleanup  *)
(* runs ('') and then the effect body.                                      *)
OverflowAfter(before, after, overflow) ==
  IF after.isOpen # before.isOpen THEN BodyOverflowEffect(after.isOpen) ELSE overflow

handleEscape(d, key) ==
  IF key = "Escape" /\ d.isOpen THEN [d EXCEPT !.isOpen = FALSE] ELSE d

closeDrawer(d) == [d EXCEPT !.isOpen = FALSE]

toggleExpanded(d, itemId) ==
  [d EXCEPT !.expandedItems = IF itemId \in @ THEN @ \ {itemId} ELSE @ \cup {itemId}]

(* An event on the mounted component: its handler, the re-render and the    *)
(* effects of that render.                                                  *)
DrawerEvent(name, after) ==
  /\ drawer.mounted
  /\ drawer' = [after EXCEPT !.lastEvent = name]
  /\ bodyOverflow' = OverflowAfter(drawer, after, bodyOverflow)
  /\ UNCHANGED nonDrawerVars

DrawerMount ==
  /\ ~drawer.mounted
  /\ drawer' = [NoDrawer EXCEPT !.mounted = TRUE, !.lastEvent = "mount"]
  /\ bodyOverflow' = BodyOverflowEffect(FALSE)
  /\ UNCHANGED nonDrawerVars

(* Unmount: the cleanup of the effect on [isOpen] restores the overflow. *)
DrawerUnmount ==
  /\ drawer.mounted
  /\ drawer' = [NoDrawer EXCEPT !.lastEvent = "unmount"]
  /\ bodyOverflow' = ""
  /\ UNCHANGED nonDrawerVars

OpenButtonClick == DrawerEvent("open", [drawer EXCEPT !.isOpen = TRUE])

KeyDown(key) ==
  DrawerEvent(IF key = "Escape" THEN "escape" ELSE "key", handleEscape(drawer, key))

(* The overlay is rendered only while the drawer is open. *)
OverlayClick == drawer.isOpen /\ DrawerEvent("overlay", closeDrawer(drawer))

CloseButtonClick == DrawerEvent("close", closeDrawer(drawer))

LeafItemClick == DrawerEvent("leaf", closeDrawer(drawer))

ParentItemClick(itemId) == DrawerEvent("parent", toggleExpanded(drawer, itemId))

DrawerInit ==
  /\ drawer = NoDrawer
  /\ bodyOverflow = ""

DrawerNext ==
  \/ DrawerMount
  \/ DrawerUnmount
  \/ OpenButtonClick
  \/ \E key \in Keys : KeyDown(key)
  \/ OverlayClick
  \/ CloseButtonClick
  \/ LeafItemClick
  \/ \E itemId \in ParentItems : ParentItemClick(itemId)

(***************************************************************************)
(* Specifications                                                          *)
(***************************************************************************)
HeaderInit ==
  /\ scrollY = 0
  /\ scrollPending = FALSE
  /\ listeners = NoListeners
  /\ hdr = NoHeader
  /\ dom = NoDom
  /\ lastEval = NoEval
  /\ ham = NoSubscriber
  /\ item = NoSubscriber
  /\ page = [mounted |-> FALSE, reverseHeaderColors |-> FALSE]
  /\ lastBroadcast = "none"
  /\ receivers = {}

Init == HeaderInit /\ PathIdle /\ MenuIdle /\ CacheIdle /\ ContentIdle /\ MwIdle /\ FormInit /\ ItemViewIdle
  /\ DrawerInit

Next ==
  \/ \E cfg \in HeaderConfigs, b \in BOOLEAN : HeaderMount(cfg, b)
  \/ HeaderCommit
  \/ HeaderUnmount
  \/ HamMount
  \/ HamUnmount
  \/ ItemMount
  \/ ItemUnmount
  \/ \E v \in BOOLEAN : PageMount(v)
  \/ \E v \in BOOLEAN : PagePropChange(v)
  \/ PageUnmount
  \/ \E y \in ScrollPositions : ScrollTo(y)
  \/ ScrollEvent

Spec == Init /\ [][Next]_vars

InitPath == HeaderInit /\ PathInit /\ MenuIdle /\ CacheIdle /\ ContentIdle /\ MwIdle /\ FormInit /\ ItemViewIdle
  /\ DrawerInit

SpecPath == InitPath /\ [][PathNext]_vars

InitMenu == HeaderInit /\ PathIdle /\ MenuInit /\ CacheIdle /\ ContentIdle /\ MwIdle /\ FormInit /\ ItemViewIdle
  /\ DrawerInit

SpecMenu == InitMenu /\ [][MenuNext]_vars

InitCache == HeaderInit /\ PathIdle /\ MenuIdle /\ CacheInit /\ ContentIdle /\ MwIdle /\ FormInit /\ ItemViewIdle
  /\ DrawerInit

SpecCache == InitCache /\ [][CacheNext]_vars

SpecKeys == InitCache /\ [][KeysNext]_vars

InitContent == HeaderInit /\ PathIdle /\ MenuIdle /\ CacheIdle /\ ContentInit /\ MwIdle /\ FormInit /\ ItemViewIdle
  /\ DrawerInit

SpecContent == InitContent /\ [][ContentNext]_vars

InitMw == HeaderInit /\ PathIdle /\ MenuIdle /\ CacheIdle /\ ContentIdle /\ MwInit /\ FormInit /\ ItemViewIdle
  /\ DrawerInit

SpecMw == InitMw /\ [][MwNext]_vars

SpecForm == Init /\ [][FormNext]_vars

InitItemView ==
  HeaderInit /\ PathIdle /\ MenuIdle /\ CacheIdle /\ ContentIdle /\ MwIdle /\ FormInit
    /\ ItemViewInit /\ DrawerInit

SpecItemView == InitItemView /\ [][ItemViewNext]_vars

SpecDrawer == Init /\ [][DrawerNext]_vars

(***************************************************************************)
(* Header coordinator: properties                                          *)
(***************************************************************************)
Subscribers == {"hdr", "ham", "item"}

IsMounted(o) ==
  CASE o = "hdr"  -> hdr.mounted
    [] o = "ham"  -> ham.mounted
    [] o = "item" -> item.mounted

(* The reverse flag an instance holds in its React state. *)
ReverseFlagOf(o) ==
  CASE o = "hdr"  -> hdr.reverseHeaderColors
    [] o = "ham"  -> ham.reverseHeaderColors
    [] o = "item" -> item.reverseHeaderColors

(* Rows of the derivation table:                                           *)
(* <<isTransparent, reverseFlag, scrolled, reverseText, background, swapLogo>> *)
DerivationTable ==
  { <<TRUE,  FALSE, FALSE, FALSE, FALSE, FALSE>>,
    <<TRUE,  TRUE,  FALSE, TRUE,  FALSE, TRUE>>,
    <<TRUE,  FALSE, TRUE,  TRUE,  TRUE,  TRUE>>,
    <<TRUE,  TRUE,  TRUE,  TRUE,  TRUE,  TRUE>>,
    <<FALSE, FALSE, FALSE, FALSE, FALSE, FALSE>>,
    <<FALSE, TRUE,  FALSE, FALSE, FALSE, FALSE>>,
    <<FALSE, FALSE, TRUE,  TRUE,  TRUE,  TRUE>>,
    <<FALSE, TRUE,  TRUE,  TRUE,  TRUE,  TRUE>> }

C2_UnmountReset ==
  [][ /\ (page.mounted /\ page.reverseHeaderColors /\ ~page'.mounted /\ hdr.mounted)
         => /\ dom'.attrReverse = "false"
            /\ lastBroadcast' = "false"
            /\ "hdr" \in receivers'
            /\ ~hdr'.reverseHeaderColors
      /\ (~page.mounted /\ page'.mounted /\ ~page'.reverseHeaderColors /\ hdr.mounted)
         => /\ dom'.attrReverse = "false"
            /\ ~hdr'.reverseHeaderColors ]_vars

C2_Witness ==
  /\ ~page.mounted /\ page.reverseHeaderColors
  /\ hdr.mounted /\ hdr.isTransparent
  /\ lastBroadcast = "false" /\ dom.attrReverse = "false"
  /\ ~hdr.reverseHeaderColors /\ hdr.rReverse = hdr.reverseHeaderColors
  /\ lastEval.valid /\ ~lastEval.reverseText

\* C3: the 'scrolled' marker and a non-transparent background are present
\* only if the last evaluation of handleScroll read scrollY > 10; when it
\* read scrollY <= 10 the background is 'transparent' and the marker absent,
\* whatever the reverse flag.
C3_BackgroundOnlyOnScroll ==
  hdr.mounted =>
    /\ lastEval.valid
    /\ dom.scrolledClass => lastEval.y > ScrollThreshold
    /\ dom.backgroundColor # "transparent" => lastEval.y > ScrollThreshold
    /\ lastEval.y <= ScrollThreshold
         => dom.backgroundColor = "transparent" /\ ~dom.scrolledClass

C3_Witness ==
  /\ hdr.mounted /\ hdr.isTransparent /\ hdr.rReverse
  /\ lastEval.flag /\ lastEval.y = ScrollThreshold /\ lastEval.reverseText
  /\ dom.backgroundColor = "transparent" /\ ~dom.scrolledClass
  /\ dom.color # ""

\* C4: the remembered original source is the source the image had before
\* the first swap and is never overwritten by a later swap; whenever the
\* last evaluation had shouldSwapLogo false the image shows that original,
\* and whenever it was true (with an on-scroll logo) it shows the alternate.
C4_IdempotentLogoSwap ==
  hdr.mounted =>
    /\ dom.originalSrc \in {"", LogoSrc}
    /\ ~lastEval.swapLogo => dom.logoSrc = LogoSrc
    /\ (lastEval.swapLogo /\ hdr.logoOnScroll # "")
         => dom.logoSrc = hdr.logoOnScroll /\ dom.originalSrc = LogoSrc

C4_Witness ==
  /\ hdr.mounted /\ hdr.logoOnScroll # ""
  /\ dom.originalSrc = LogoSrc /\ dom.logoSrc = LogoSrc
  /\ lastEval.valid /\ ~lastEval.swapLogo

\* C5: once a broadcast has happened and the header, the hamburger and the
\* menu item have all processed it (the header has re-rendered) and the same
\* scroll position, both shouldUseReverseColors equal the header's
\* shouldApplyReverseTextColors.
AllProcessed ==
  /\ hdr.mounted /\ lastEval.valid
  /\ lastBroadcast # "none"
  /\ \A o \in Subscribers : IsMounted(o) => o \in receivers
  /\ hdr.rReverse = hdr.reverseHeaderColors
  /\ ham.mounted => ham.seenY = lastEval.y
  /\ item.mounted => item.seenY = lastEval.y

C5_SubscribersConsistent ==
  AllProcessed =>
    /\ ham.mounted => ShouldUseReverseColors(ham) = lastEval.reverseText
    /\ item.mounted => ShouldUseReverseColors(item) = lastEval.reverseText

C5_Witness ==
  /\ AllProcessed /\ ham.mounted /\ item.mounted
  /\ ~hdr.isTransparent /\ lastBroadcast = "true" /\ ~lastEval.scrolled
  /\ ~ShouldUseReverseColors(ham) /\ ~ShouldUseReverseColors(item)

\* C6 (as stated): every subscriber mounted after the most recent broadcast
\* holds a reverse flag equal to that broadcast's value.
C6_LateSubscriberHasBroadcastValue ==
  \A o \in Subscribers :
    (lastBroadcast # "none" /\ IsMounted(o) /\ o \notin receivers)
      => ReverseFlagOf(o) = (lastBroadcast = "true")

\* C6 (amended): a hamburger or menu item mounted after the most recent
\* broadcast, while the header that received that broadcast is still
\* mounted, holds the flag it reads from the attributes: the broadcast's
\* value AND data-header-transparent.
C6_LateSubscriberReadsSnapshot ==
  \A o \in {"ham", "item"} :
    (lastBroadcast # "none" /\ IsMounted(o) /\ o \notin receivers
       /\ hdr.mounted /\ "hdr" \in receivers)
      => ReverseFlagOf(o) = ((lastBroadcast = "true") /\ hdr.isTransparent)

C6_Witness ==
  /\ lastBroadcast = "true" /\ hdr.mounted /\ "hdr" \in receivers /\ hdr.isTransparent
  /\ ham.mounted /\ "ham" \notin receivers /\ ham.reverseHeaderColors
  /\ item.mounted /\ "item" \notin receivers /\ item.reverseHeaderColors

(***************************************************************************)
(* Path resolver: properties                                               *)
(***************************************************************************)
ParentOf(pm, id) == IF id \in DOMAIN pm THEN pm[id].parent_id ELSE NoId

(* The k-th ancestor of id (id itself for k = 0), NoId past the chain's end. *)
RECURSIVE Up(_, _, _)
Up(pm, id, k) == IF k = 0 \/ id = NoId THEN id ELSE Up(pm, ParentOf(pm, id), k - 1)

NoDanglingParents(pm) ==
  \A i \in DOMAIN pm : pm[i].parent_id \in DOMAIN pm \cup {NoId}

Acyclic(pm) == \A i \in DOMAIN pm : Up(pm, i, Cardinality(DOMAIN pm)) = NoId

(* '/' + the slugs from the root down to the page, joined by '/'. *)
RECURSIVE RootDownPath(_, _, _)
RootDownPath(pm, id, fuel) ==
  IF pm[id].parent_id = NoId \/ fuel = 0
    THEN <<"/">> \o pm[id].slug
    ELSE RootDownPath(pm, pm[id].parent_id, fuel - 1) \o <<"/">> \o pm[id].slug

\* C7: for an acyclic page map without dangling parents, every call, after
\* any earlier calls, returns '/' + the slugs from the root down to the page
\* joined by '/', and reports no cycle.
C7_PathOfAcyclicTree ==
  (walk.status = "done" /\ walk.pageId \in DOMAIN pagesMap
     /\ Acyclic(pagesMap) /\ NoDanglingParents(pagesMap))
    => /\ walk.result = RootDownPath(pagesMap, walk.pageId, Cardinality(DOMAIN pagesMap))
       /\ ~walk.cycleReported

C7_Witness ==
  /\ walk.status = "done" /\ walk.pageId = 3
  /\ pagesMap[3].parent_id = 2 /\ pagesMap[2].parent_id = 1 /\ pagesMap[1].parent_id = NoId
  /\ \A i \in PageIds : pagesMap[i].slug = SlugOf(i)
  /\ walk.result = <<"/", "a", "/", "b", "/", "c">>

(* The pages a walk from id collects: id, its parent, ... up to the first   *)
(* missing page or the first page met twice.                                *)
ChainLength(pm, id) ==
  LET n == Cardinality(DOMAIN pm)
      Ok(k) == /\ \A j \in 0 .. (k - 1) : Up(pm, id, j) \in DOMAIN pm
               /\ \A j1, j2 \in 0 .. (k - 1) : j1 # j2 => Up(pm, id, j1) # Up(pm, id, j2)
               /\ \A j \in 1 .. (k - 1) : ParentOf(pm, Up(pm, id, j - 1)) # NoId
  IN CHOOSE k \in 0 .. n : Ok(k) /\ \A k2 \in 0 .. n : Ok(k2) => k2 <= k

PartialPath(pm, id) ==
  LET n == ChainLength(pm, id)
  IN <<"/">> \o Join([j \in 1 .. n |-> pm[Up(pm, id, n - j)].slug])

\* C8 (as stated): the walk ends after at most as many loop iterations as
\* there are pages.
C8_IterationsAtMostPages ==
  walk.status = "done" => walk.iterations <= Cardinality(DOMAIN pagesMap)

\* C8 (amended): for any page map, cyclic ones included, a running walk can
\* always take its next step, collects at most one segment per page and makes
\* at most one loop iteration more than there are pages (the extra one
\* detects the recurring id), and returns '/' + the segments collected
\* before an id recurred.
C8_CycleSafety ==
  /\ walk.status = "walking" => ENABLED WalkStep
  /\ walk.iterations <= Cardinality(DOMAIN pagesMap) + 1
  /\ Len(walk.segments) <= Cardinality(DOMAIN pagesMap)
  /\ walk.status = "done"
       => /\ walk.result = PartialPath(pagesMap, walk.pageId)
          /\ walk.cycleReported => walk.iterations = Len(walk.segments) + 1

C8_Witness ==
  /\ walk.status = "done" /\ walk.cycleReported /\ walk.pageId = 1
  /\ pagesMap[1].parent_id = 2 /\ pagesMap[2].parent_id = 1
  /\ pagesMap[1].slug = SlugOf(1) /\ pagesMap[2].slug = SlugOf(2)
  /\ walk.result = <<"/", "b", "/", "a">>
  /\ walk.iterations = 3

(***************************************************************************)
(* TTL caches: properties                                                  *)
(***************************************************************************)
FiveMinutes == 5 * 60 * 1000

(* Caller c starts a call in this step. *)
CallStartsAt(c) == calls[c].status # "awaiting" /\ calls'[c] # calls[c]

(* Caller c's request is answered successfully in this step. *)
SucceedsAt(c) ==
  calls[c].status = "awaiting" /\ calls'[c].status = "returned" /\ calls'[c].result # 0

EntriesUnchanged == standingsCache' = standingsCache /\ playersCache' = playersCache

\* C9: a call made less than 5 minutes after the cached entry of its key was
\* stored returns that entry's data (the same object) without a network
\* request; a call made once the entry is 5 minutes old issues exactly one
\* request, and when that request succeeds its (new) data and the current
\* time replace the entry.
C9_CacheTTL ==
  [][ \A c \in Callers :
        /\ (CallStartsAt(c) /\ secret)
             => LET fn == calls'[c].fn
                    key == calls'[c].key
                    cached == CacheGet(CacheOf(fn), key)
                IN /\ (cached.kind # "null" /\ now - cached.timestamp < FiveMinutes)
                        => /\ calls'[c].status = "returned"
                           /\ calls'[c].result = cached.data
                           /\ requests' = requests
                           /\ EntriesUnchanged
                   /\ (cached.kind # "null" /\ now - cached.timestamp >= FiveMinutes)
                        => /\ calls'[c].status = "awaiting"
                           /\ requests' = requests + 1
        /\ SucceedsAt(c)
             => LET cacheAfter == IF calls[c].fn = "standings"
                                    THEN standingsCache' ELSE playersCache'
                IN /\ cacheAfter[calls[c].key] =
                        [kind |-> "entry", data |-> calls'[c].result, timestamp |-> now]
                   /\ \A k \in DOMAIN standingsCache :
                        standingsCache[k].data # calls'[c].result
                   /\ \A k \in DOMAIN playersCache :
                        playersCache[k].data # calls'[c].result ]_vars

C9_Witness ==
  /\ secret /\ requests = 2 /\ responses = 2
  /\ calls["c2"] = NoCaller
  /\ playersCache = <<>>
  /\ DOMAIN standingsCache = {StandingsKey(<<"1">>)}
  /\ standingsCache[StandingsKey(<<"1">>)] =
       [kind |-> "entry", data |-> 2, timestamp |-> CACHE_TTL]
  /\ now = CACHE_TTL
  /\ calls["c1"] = [ status |-> "returned", fn |-> "standings",
                     key |-> StandingsKey(<<"1">>), result |-> 2, fromCache |-> TRUE ]

(***************************************************************************)
(* fetchHuvudmeny: properties                                              *)
(***************************************************************************)
FetchFailed(outcome) == outcome \in {"httpError", "graphqlErrors", "networkError"}

\* C10: when the menu fetch or the page-list fetch of fetchHuvudmeny fails,
\* no menu whose items went through path enrichment is returned.
C10_NoPartialSuccessMerge ==
  (hv.status = "done" /\ (FetchFailed(hv.menuFetch) \/ FetchFailed(hv.pagesFetch)))
    => ~(hv.result.kind = "menu" /\ hv.result.hasItems)

(***************************************************************************)
(* Content endpoints: properties                                           *)
(***************************************************************************)
(* The empty result of an endpoint: an empty list for the list endpoints    *)
(* (for fetchPosts with total 0), null for the single-entity endpoints.     *)
EmptyResultOf(endpoint) ==
  CASE endpoint = "fetchAllPages" -> [kind |-> "array", items |-> <<>>]
    [] endpoint = "fetchPosts" -> [posts |-> <<>>, total |-> 0]
    [] OTHER -> [kind |-> "null"]

(* C11: a content-fetch failure (non-ok HTTP status, GraphQL errors, thrown *)
(* network error) never leaves an endpoint as an exception: every completed *)
(* call has returned, and after a failed request the list endpoints have    *)
(* returned an empty result and the single-entity endpoints null.           *)
C11_ContentFailureNeverThrows ==
  content.status \notin {"idle", "awaiting"} =>
    /\ content.status = "returned"
    /\ FetchFailed(content.outcome) => content.result = EmptyResultOf(content.endpoint)

C11_Witness ==
  /\ content.status = "returned"
  /\ content.endpoint = "fetchPostBySlug"
  /\ content.outcome = "graphqlErrors"
  /\ backend.entity.kind = "entity" /\ backend.entity.status = "published"
  /\ content.result = Null

(***************************************************************************)
(* middleware: properties                                                  *)
(***************************************************************************)
FailedLookups == {"notOk", "networkError", "timeout", "invalidJson"}

(* C12: for every request path and every outcome of the redirect lookup the *)
(* middleware returns a response: a redirect only when the lookup found a   *)
(* match, NextResponse.next() otherwise; a failed lookup (non-ok status,    *)
(* network error, timeout) counts as no redirect, and a pending lookup can  *)
(* always end by its timeout.                                               *)
C12_MiddlewareAlwaysResponds ==
  /\ mw.status = "done" =>
       /\ mw.response.kind \in {"next", "redirect"}
       /\ mw.response.kind = "redirect" => mw.found.kind = "redirect"
       /\ mw.lookup \in FailedLookups \cup {"skipped", "noMatch"} =>
            mw.response = NextResponseNext
  /\ mw.status = "awaiting" => ENABLED MwLookupSettles("timeout")

C12_Witness ==
  /\ mw.status = "done"
  /\ mw.lookup = "timeout"
  /\ redirectApi[mw.pathname].kind = "redirect"
  /\ mw.response = NextResponseNext
  /\ \E key \in DOMAIN redirectCache : redirectCache[key].redirect.kind = "redirect"

(***************************************************************************)
(* fetchStandings / fetchTeamPlayers: error propagation                    *)
(***************************************************************************)
(* Caller c's request ends in this step with a non-ok status or a network   *)
(* error.                                                                   *)
FailsAt(c) ==
  calls[c].status = "awaiting" /\ calls'[c].status # "awaiting" /\ responses' = responses

(* C13: when the request of a standings lookup or of a player lookup ends   *)
(* with a non-success HTTP status or a network error, the call propagates   *)
(* an error to its caller.                                                  *)
C13_LookupErrorsPropagate ==
  [][\A c \in Callers : FailsAt(c) => calls'[c].status = "threw"]_vars

(***************************************************************************)
(* Form submission handler: properties                                     *)
(***************************************************************************)
(* An exception inside the handler: the request body does not parse, the    *)
(* upstream fetch rejects, or the upstream body cannot be decoded into an   *)
(* object.                                                                  *)
FormTransportFailed ==
  \/ ~form.bodyParsed
  \/ form.upstream \in {"networkError", "invalidJson"}
  \/ form.result.kind = "null"

(* C14: the handler always answers with a structured response: a transport  *)
(* failure gives 500 with the generic error; otherwise upstream GraphQL     *)
(* errors or a submitForm that did not succeed give 400 with { error }      *)
(* holding the upstream message whenever upstream sent one; and             *)
(* { success: true, message } is answered only when submitForm.success is   *)
(* true (and there are no errors).                                          *)
C14_StructuredFormResponse ==
  form.status = "done" =>
    LET r == form.response IN
    /\ r.body.kind \in {"error", "success"}
    /\ FormTransportFailed <=> r.status = 500
    /\ r.status = 500 => r.body = [kind |-> "error", error |-> InternalServerError]
    /\ ~FormTransportFailed =>
         LET failedUpstream ==
               \/ form.result.errors.present
               \/ form.result.submitForm.kind = "null"
               \/ ~form.result.submitForm.success
             upstreamMessage ==
               IF form.result.errors.present
                 THEN FirstErrorMessage(form.result.errors)
               ELSE IF form.result.submitForm.kind = "null" THEN NoMessage
               ELSE form.result.submitForm.message
         IN IF failedUpstream
              THEN /\ r.status = 400
                   /\ r.body.kind = "error"
                   /\ upstreamMessage # NoMessage => r.body.error = upstreamMessage
              ELSE r = [status |-> 200,
                        body |-> [kind |-> "success", success |-> TRUE,
                                  message |-> form.result.submitForm.message]]

C14_Witness ==
  /\ form.status = "done"
  /\ form.upstream = "json"
  /\ form.result.kind = "object"
  /\ ~form.result.errors.present
  /\ form.result.submitForm.kind = "payload"
  /\ ~form.result.submitForm.success
  /\ form.result.submitForm.message = UpstreamMessage
  /\ form.response = JsonError(UpstreamMessage, 400)

(***************************************************************************)
(* Header coordinator: listeners, background colour, broadcasts, scroll    *)
(* signal                                                                  *)
(***************************************************************************)
(* C15: after any sequence of mounts, re-runs of GlobalHeaderClient's       *)
(* scroll effect and unmounts, window holds exactly one scroll listener and *)
(* one pageHeaderSettingsChange listener for every mounted instance and     *)
(* none for an instance that is not mounted.                                *)
C15_ListenersMatchMountedInstances ==
  \A k \in ListenerKeys : listeners[k] = IF IsMounted(k[1]) THEN 1 ELSE 0

C15_Witness ==
  /\ hdr.mounted /\ lastEval.cause = "effect"
  /\ listeners[<<"hdr", "scroll">>] = 1
  /\ item.mounted /\ item.seenY > 0 /\ listeners[<<"item", "scroll">>] = 1
  /\ ~ham.mounted /\ "ham" \in receivers /\ listeners[<<"ham", "scroll">>] = 0

(***************************************************************************)
(* fetchAllPages: only published pages                                     *)
(***************************************************************************)
(* The items of a menu with the items nested below them. *)
RECURSIVE FlattenItems(_)
FlattenItems(items) ==
  IF Len(items) = 0
    THEN {}
    ELSE {Head(items)} \cup FlattenItems(Head(items).children)
                       \cup FlattenItems(Tail(items))

Unpublished(c) == {i \in DOMAIN c.pages : c.pages[i].status # "published"}

(* C16: every page record fetchAllPages returned has status 'published',    *)
(* and so has every record the menu enrichment resolves paths with: no url  *)
(* of an enriched internal menu item contains the slug of a page that is    *)
(* not published.                                                           *)
C16_OnlyPublishedPages ==
  /\ \A i \in DOMAIN hv.allPages : hv.allPages[i].status = "published"
  /\ (hv.status = "done" /\ hv.result.kind = "menu") =>
       \A it \in FlattenItems(hv.result.items) :
         it.link_type = "internal" =>
           \A i \in Unpublished(cms), k \in DOMAIN it.url :
             <<it.url[k]>> # cms.pages[i].slug

C16_Witness ==
  /\ hv.status = "done" /\ hv.pagesFetch = "ok" /\ hv.result.kind = "menu"
  /\ cms.pages[1].status = "draft"
  /\ cms.pages[2].status = "published" /\ cms.pages[2].parent_id = 1
  /\ Len(hv.allPages) = 1
  /\ \E it \in FlattenItems(hv.result.items) : it.page_id = 1 /\ it.url = <<"/">>
  /\ \E it \in FlattenItems(hv.result.items) : it.page_id = 2 /\ it.url = <<"/">> \o SlugOf(2)

(* The configured on-scroll background: the first container's CSS custom    *)
(* property, or the settings-level value when the container provides none.  *)
ConfiguredBgOnScroll(h) ==
  IF h.hasContainer /\ h.cssBgOnScroll # "" THEN h.cssBgOnScroll ELSE h.settingsBgOnScroll

(* C17: whenever the last evaluation of handleScroll had                    *)
(* shouldApplyBackground true, the header's background is the configured    *)
(* on-scroll colour: the container's --background-color-on-scroll, or the   *)
(* settings-level backgroundColorOnScroll when the container has none.      *)
C17_BackgroundIsConfiguredColour ==
  (hdr.mounted /\ lastEval.valid /\ lastEval.background)
    => dom.backgroundColor = ConfiguredBgOnScroll(hdr)

(* The header has received the last broadcast, has re-rendered with its     *)
(* value, and its last evaluation of handleScroll read an unscrolled        *)
(* position.                                                                *)
BroadcastAppliedUnscrolled(value) ==
  /\ hdr.mounted /\ hdr.isTransparent
  /\ lastBroadcast = BoolAttr(value) /\ "hdr" \in receivers
  /\ hdr.reverseHeaderColors = value /\ hdr.rReverse = value
  /\ lastEval.valid /\ lastEval.y <= ScrollThreshold

ScrolledStateOf(o) ==
  CASE o = "hdr" -> hdr.isScrolled
    [] o = "ham" -> ham.scrolled
    [] o = "item" -> item.scrolled

(* The scroll position an instance read last (at mount, in an effect        *)
(* re-run or in a scroll notification).                                     *)
LastReadY(o) ==
  CASE o = "hdr" -> lastEval.y
    [] o = "ham" -> ham.seenY
    [] o = "item" -> item.seenY

(* C19: in GlobalHeaderClient, HamburgerMenu and MenuItemClient the         *)
(* scrolled state is (scrollY > 10), strictly greater, for the position     *)
(* read at mount and in each processed scroll notification; with no         *)
(* notification pending that position is the current window.scrollY.        *)
C19_ScrolledIsScrollYAboveTen ==
  \A o \in Subscribers :
    IsMounted(o) =>
      /\ ScrolledStateOf(o) = (LastReadY(o) > 10)
      /\ ~scrollPending => LastReadY(o) = scrollY

C19_Witness ==
  /\ scrollY = 10 /\ ~scrollPending
  /\ hdr.mounted /\ lastEval.cause = "mount" /\ ~hdr.isScrolled
  /\ ham.mounted /\ ~ham.scrolled
  /\ item.mounted /\ ~item.scrolled
  /\ "item" \in receivers

(***************************************************************************)
(* MenuItemClient colours: properties                                      *)
(***************************************************************************)
(* The 2x2 table {reversed, hovered} -> colour. *)
ColorTable(reversed, hovered, c) ==
  CASE ~reversed /\ ~hovered -> c.textColor
    [] ~reversed /\ hovered -> c.hoverTextColor
    [] reversed /\ ~hovered -> c.reverseTextColor
    [] reversed /\ hovered -> c.reverseHoverTextColor

AllFourConfigured(c) ==
  /\ c.textColor # NoColor /\ c.hoverTextColor # NoColor
  /\ c.reverseTextColor # NoColor /\ c.reverseHoverTextColor # NoColor

(* C20: with all four colours configured, the colour of a menu item's link  *)
(* is the entry of the 2x2 table for (reversed, hovered), where reversed is *)
(* the item's reverse flag or its scrolled state; for an item that received *)
(* the last broadcast under the header still mounted, reversed is (page     *)
(* flag AND header transparent) OR (the position it read last > 10).        *)
C20_MenuItemColourTable ==
  (item.mounted /\ AllFourConfigured(itemProps.colors)) =>
    /\ LinkColor(item, isHovered, itemProps)
         = ColorTable(item.reverseHeaderColors \/ item.scrolled, isHovered, itemProps.colors)
    /\ ("item" \in receivers /\ hdr.mounted /\ "hdr" \in receivers) =>
         LinkColor(item, isHovered, itemProps)
           = ColorTable((lastBroadcast = "true" /\ hdr.isTransparent) \/ item.seenY > 10,
                        isHovered, itemProps.colors)

C20_Witness ==
  /\ item.mounted /\ AllFourConfigured(itemProps.colors)
  /\ "item" \in receivers /\ hdr.mounted /\ "hdr" \in receivers
  /\ lastBroadcast = "true" /\ hdr.isTransparent /\ item.seenY = 0
  /\ isHovered
  /\ LinkColor(item, isHovered, itemProps) = "reverseHover"

(***************************************************************************)
(* Path resolver: dangling parents and empty slugs                         *)
(***************************************************************************)
(* The pages of the chain from id upwards whose parent_id names no page. *)
DanglingAncestors(pm, id) ==
  { d \in DOMAIN pm :
      /\ pm[d].parent_id \notin DOMAIN pm \cup {NoId}
      /\ \E k \in 0 .. (Cardinality(DOMAIN pm) - 1) :
           /\ Up(pm, id, k) = d
           /\ \A j \in 0 .. (k - 1) : Up(pm, id, j) # d }

(* The map in which page d is a root. *)
Rooted(pm, d) == [pm EXCEPT ![d].parent_id = NoId]

IsPrefix(p, s) == Len(p) <= Len(s) /\ SubSeq(s, 1, Len(p)) = p

\* C21: when the chain from the page walked reaches a page whose parent_id
\* names no page of the map, the walk ends there as at a root: the result is
\* the path the page has in the map where that page is a root, it starts with
\* '/' + that page's slug, no cycle is reported, and a running walk can
\* always take its next step.
C21_DanglingParentIsRoot ==
  /\ walk.status = "walking" => ENABLED WalkStep
  /\ (walk.status = "done" /\ walk.pageId \in DOMAIN pagesMap) =>
       \A d \in DanglingAncestors(pagesMap, walk.pageId) :
         /\ walk.result = RootDownPath(Rooted(pagesMap, d), walk.pageId,
                                       Cardinality(DOMAIN pagesMap))
         /\ IsPrefix(<<"/">> \o pagesMap[d].slug, walk.result)
         /\ ~walk.cycleReported

C21_Witness ==
  /\ walk.status = "done" /\ walk.pageId = 3
  /\ pagesMap[3].parent_id = 2 /\ pagesMap[2].parent_id = MissingId
  /\ pagesMap[2].slug = SlugOf(2) /\ pagesMap[3].slug = SlugOf(3)
  /\ walk.result = <<"/", "b", "/", "c">>
  /\ ~walk.cycleReported

(* The path has '//' in it, or ends with '/' after other characters. *)
HasEmptySegment(path) ==
  \/ \E i \in 1 .. (Len(path) - 1) : path[i] = "/" /\ path[i + 1] = "/"
  \/ Len(path) > 1 /\ path[Len(path)] = "/"

\* C22: the path a walk returns has no empty segment: no '//' and no
\* trailing '/', even when a page of the chain has an empty slug.
C22_NoEmptySegment ==
  walk.status = "done" => ~HasEmptySegment(walk.result)

(***************************************************************************)
(* Logo switching: the comment above the logo block                        *)
(***************************************************************************)
\* C23: logo switching happens only on actual scroll: after an evaluation
\* of handleScroll that read scrollY <= 10, the logo image does not show the
\* on-scroll logo, whatever the page flag and the transparency.
C23_LogoSwapOnlyOnScroll ==
  (hdr.mounted /\ lastEval.valid /\ lastEval.y <= ScrollThreshold)
    => dom.logoSrc # LogoOnScroll

(***************************************************************************)
(* PageHeaderSettings: attribute writes and dispatches                     *)
(***************************************************************************)
(* The value PageHeaderSettings wrote last in a step that changed it: the   *)
(* new prop after a mount or a prop change, false after the cleanup of an   *)
(* unmount.                                                                 *)
LastWritten(p) == IF p.mounted THEN BoolAttr(p.reverseHeaderColors) ELSE "false"

\* C24: every step of PageHeaderSettings (mount, prop change, unmount) with
\* the header element present leaves data-reverse-header-colors, the last
\* payload dispatched and GlobalHeaderClient's reverseHeaderColors state all
\* equal to the value written; with the header element absent the step
\* writes no attribute and dispatches nothing.
C24_WritePairedWithDispatch ==
  [][ page' # page =>
        IF hdr.mounted
          THEN /\ dom'.attrReverse = LastWritten(page')
               /\ lastBroadcast' = LastWritten(page')
               /\ BoolAttr(hdr'.reverseHeaderColors) = LastWritten(page')
               /\ "hdr" \in receivers'
          ELSE UNCHANGED <<dom, lastBroadcast, receivers, hdr, ham, item>> ]_vars

C24_Witness ==
  /\ page.mounted /\ ~page.reverseHeaderColors
  /\ hdr.mounted /\ "hdr" \in receivers
  /\ hdr.rReverse /\ ~hdr.reverseHeaderColors
  /\ dom.attrReverse = "false" /\ lastBroadcast = "false"

(***************************************************************************)
(* TTL caches: overlapping calls, failures, keys                           *)
(***************************************************************************)
AllEntries ==
  {standingsCache[k] : k \in DOMAIN standingsCache}
    \cup {playersCache[k] : k \in DOMAIN playersCache}

\* C25: under any interleaving of overlapping calls, a caller that returns at
\* its call was given the data cached under its key, a caller whose response
\* is processed is given the data of that response, and processing a
\* response replaces the entry of the caller's key (and no other) by that
\* data and the current time; nothing else writes a cache, so the entry of a
\* key is that of the response processed last, and the response processed
\* last of all is always in a cache.
C25_OverlappingCallsLastWriterWins ==
  /\ [][ /\ \A c \in Callers :
              /\ (CallStartsAt(c) /\ calls'[c].status = "returned" /\ calls'[c].result # 0)
                   => /\ calls'[c].result = CacheGet(CacheOf(calls'[c].fn), calls'[c].key).data
                      /\ EntriesUnchanged
              /\ SucceedsAt(c)
                   => LET before == CacheOf(calls[c].fn)
                          after == IF calls[c].fn = "standings"
                                     THEN standingsCache' ELSE playersCache'
                          other == IF calls[c].fn = "standings"
                                     THEN playersCache' = playersCache
                                     ELSE standingsCache' = standingsCache
                      IN /\ responses' = responses + 1
                         /\ calls'[c].result = responses'
                         /\ DOMAIN after = DOMAIN before \cup {calls[c].key}
                         /\ after[calls[c].key] =
                              [kind |-> "entry", data |-> responses', timestamp |-> now]
                         /\ \A k \in DOMAIN before \ {calls[c].key} : after[k] = before[k]
                         /\ other
         /\ (\A c \in Callers : ~SucceedsAt(c)) => EntriesUnchanged ]_vars
  /\ [](responses > 0 => \E e \in AllEntries : e.data = responses /\ e.timestamp <= now)

C25_Witness ==
  /\ secret /\ now = 0 /\ requests = 2 /\ responses = 2
  /\ calls["c1"] = [ status |-> "returned", fn |-> "standings",
                     key |-> StandingsKey(<<"1">>), result |-> 2, fromCache |-> FALSE ]
  /\ calls["c2"] = [ status |-> "returned", fn |-> "standings",
                     key |-> StandingsKey(<<"1">>), result |-> 1, fromCache |-> FALSE ]
  /\ DOMAIN standingsCache = {StandingsKey(<<"1">>)}
  /\ standingsCache[StandingsKey(<<"1">>)] = [kind |-> "entry", data |-> 2, timestamp |-> 0]

(* Caller c's call has ended without data: it threw or returned null. *)
FailedState(c) ==
  calls[c].status = "threw" \/ (calls[c].status = "returned" /\ calls[c].result = 0)

\* C26: a lookup that fails (missing secret, non-ok status, thrown fetch)
\* leaves both caches as they were, and the next call of that caller for the
\* same key, with the entry of the key absent or 5 minutes old, issues a
\* network request again.
C26_FailureLeavesCacheUnchanged ==
  [][ \A c \in Callers :
        /\ (calls'[c] # calls[c]
              /\ (calls'[c].status = "threw"
                    \/ (calls'[c].status = "returned" /\ calls'[c].result = 0)))
             => EntriesUnchanged
        /\ (CallStartsAt(c) /\ secret /\ FailedState(c)
              /\ calls'[c].fn = calls[c].fn /\ calls'[c].key = calls[c].key)
             => LET cached == CacheGet(CacheOf(calls[c].fn), calls[c].key)
                IN (cached.kind = "null" \/ now - cached.timestamp >= FiveMinutes)
                     => /\ calls'[c].status = "awaiting"
                        /\ requests' = requests + 1 ]_vars

C26_Witness ==
  /\ secret /\ requests = 2 /\ responses = 1 /\ now = CACHE_TTL
  /\ calls["c2"] = NoCaller
  /\ calls["c1"] = [ status |-> "returned", fn |-> "players",
                     key |-> PlayersKey(<<"1">>, <<"7">>), result |-> 0, fromCache |-> FALSE ]
  /\ standingsCache = <<>>
  /\ DOMAIN playersCache = {PlayersKey(<<"1">>, <<"7">>)}
  /\ playersCache[PlayersKey(<<"1">>, <<"7">>)] = [kind |-> "entry", data |-> 1, timestamp |-> 0]

(***************************************************************************)
(* lookupRedirect: the redirect cache                                      *)
(***************************************************************************)
(* A request for a path that is looked up starts in this step. *)
LookupStarts ==
  mw.status # "awaiting" /\ mw' # mw /\ mw'.lookup # "skipped"

(* The pending API request ends in this step. *)
LookupEnds == mw.status = "awaiting" /\ mw'.status = "done"

\* C27: lookupRedirect stores a match and a negative result (non-ok status,
\* or no match) under the store-and-path key with an expiry 5 minutes after
\* the response; a lookup of a path before the expiry of its entry returns
\* the entry's value without a request and leaves the cache alone, a lookup
\* at or after the expiry (or without an entry) issues a request, and a
\* lookup that throws stores nothing.
C27_RedirectCacheTTL ==
  [][ /\ LookupStarts =>
           LET cached == CacheGet(redirectCache, RedirectKey(mw'.pathname))
               live == IF cached.kind = "null" THEN FALSE ELSE mwNow < cached.expires
           IN /\ redirectCache' = redirectCache
              /\ IF live
                   THEN /\ mw'.status = "done" /\ mw'.lookup = "cached"
                        /\ mw'.found = cached.redirect
                   ELSE mw'.status = "awaiting"
      /\ LookupEnds =>
           LET key == RedirectKey(mw.pathname) IN
           IF mw'.lookup \in {"match", "noMatch", "notOk"}
             THEN /\ DOMAIN redirectCache' = DOMAIN redirectCache \cup {key}
                  /\ redirectCache'[key] =
                       [ kind |-> "entry",
                         redirect |-> IF mw'.lookup = "notOk"
                                        THEN Null ELSE redirectApi[mw.pathname],
                         expires |-> mwNow + FiveMinutes ]
                  /\ redirectCache'[key].redirect = mw'.found
                  /\ \A k \in DOMAIN redirectCache \ {key} :
                       redirectCache'[k] = redirectCache[k]
             ELSE /\ mw'.lookup \in {"networkError", "timeout", "invalidJson"}
                  /\ redirectCache' = redirectCache
      /\ (redirectCache' # redirectCache) => LookupEnds ]_vars

(* An entry is cached and, exactly at its expiry, its path is looked up again. *)
C27_Witness ==
  /\ mw.status = "awaiting" /\ mw.pathname = <<"/", "a">>
  /\ redirectApi[<<"/", "a">>].kind = "redirect"
  /\ mwNow = FiveMinutes
  /\ RedirectKey(<<"/", "a">>) \in DOMAIN redirectCache
  /\ redirectCache[RedirectKey(<<"/", "a">>)] =
       [kind |-> "entry", redirect |-> Null, expires |-> FiveMinutes]

\* C28: cache keys are injective in their inputs: a call answered from the
\* cache reads an entry stored by a call with the same arguments, and a
\* response overwrites only an entry stored by a call with the same
\* arguments, so no caller is given data fetched for another league or team.
C28_KeysInjective ==
  [][ \A c \in Callers :
        /\ (CallStartsAt(c) /\ calls'[c].status = "returned" /\ calls'[c].fromCache)
             => origin.stored[<<calls'[c].fn, calls'[c].key>>] = origin'.asked[c]
        /\ (SucceedsAt(c) /\ <<calls[c].fn, calls[c].key>> \in DOMAIN origin.stored)
             => origin.stored[<<calls[c].fn, calls[c].key>>] = origin.asked[c] ]_vars

(***************************************************************************)
(* HamburgerMenu drawer: properties                                        *)
(***************************************************************************)
ClosingEvents == {"overlay", "close", "leaf", "unmount"}

\* C29: after any sequence of open-button clicks, key presses, overlay,
\* close-button, leaf-item and parent-item clicks, document.body's overflow
\* is 'hidden' exactly when the drawer is open; the open button opens and
\* the overlay, the close button and a leaf item close the drawer; Escape
\* closes an open drawer and changes nothing of a closed one; and after the
\* unmount the overflow is ''.
C29_BodyOverflowFollowsDrawer ==
  /\ [](/\ (bodyOverflow = "hidden") <=> (drawer.mounted /\ drawer.isOpen)
        /\ bodyOverflow \in {"hidden", ""}
        /\ ~drawer.mounted => bodyOverflow = ""
        /\ drawer.lastEvent = "open" => drawer.isOpen
        /\ drawer.lastEvent \in ClosingEvents \cup {"escape"} => ~drawer.isOpen)
  /\ [][ (drawer'.lastEvent \in {"escape", "key"} /\ drawer' # drawer) =>
           /\ (~drawer.isOpen \/ drawer'.lastEvent = "key") =>
                /\ drawer'.isOpen = drawer.isOpen
                /\ bodyOverflow' = bodyOverflow
           /\ drawer'.expandedItems = drawer.expandedItems
           /\ drawer'.mounted = drawer.mounted ]_vars

C29_Witness ==
  /\ drawer.mounted /\ drawer.lastEvent = "escape" /\ ~drawer.isOpen
  /\ drawer.expandedItems = {1}
  /\ bodyOverflow = ""

(***************************************************************************)
(* enrichMenuItemsWithPaths: frame                                         *)
(***************************************************************************)
(* The item objects of a tree of items, allocated on a heap. *)
RECURSIVE AllocItems(_, _)
AllocItems(heap, items) ==
  IF items = <<>>
    THEN [heap |-> heap, refs |-> <<>>]
    ELSE LET kids == AllocItems(heap, Head(items).children)
             r == NewRef(kids.heap)
             h1 == kids.heap @@ (r :> [Head(items) EXCEPT !.children = kids.refs])
             rest == AllocItems(h1, Tail(items))
         IN [heap |-> rest.heap, refs |-> <<r>> \o rest.refs]

(* The tree of items a sequence of references stands for. *)
RECURSIVE Deref(_, _)
Deref(heap, refs) ==
  [ i \in DOMAIN refs |->
      [heap[refs[i]] EXCEPT !.children = Deref(heap, heap[refs[i]].children)] ]

(* The items with the url of every internal item that has a page_id         *)
(* replaced by the page's path, and nothing else changed.                   *)
RECURSIVE OnlyUrlsResolved(_, _)
OnlyUrlsResolved(items, pm) ==
  [ i \in DOMAIN items |->
      [items[i] EXCEPT
         !.url = IF items[i].link_type = "internal" /\ items[i].page_id # NoId
                   THEN PartialPath(pm, items[i].page_id) ELSE @,
         !.children = OnlyUrlsResolved(@, pm)] ]

\* C30: the items fetchHuvudmeny returns are the fetched items with only the
\* url of each internal item that has a page_id replaced by the path
\* resolved for its page, every other field, the other urls, the order and
\* the nesting kept at every depth; and the enrichment, run on the item
\* objects, returns these items as new objects and leaves every input
\* object as it was.
C30_EnrichChangesOnlyUrls ==
  (hv.status = "done" /\ hv.menu.kind = "menu" /\ hv.menu.hasItems) =>
    LET pm == PagesMapOf(hv.allPages)
        input == AllocItems(<<>>, hv.menu.items)
        output == EnrichItems(input.heap, input.refs, pm)
    IN /\ hv.result.items = OnlyUrlsResolved(hv.menu.items, pm)
       /\ Deref(output.heap, output.refs) = hv.result.items
       /\ \A r \in DOMAIN input.heap : output.heap[r] = input.heap[r]
       /\ \A i \in DOMAIN output.refs : output.refs[i] \notin DOMAIN input.heap

C30_Witness ==
  /\ hv.status = "done" /\ hv.pagesFetch = "ok" /\ hv.menu.kind = "menu"
  /\ Len(hv.menu.items) = 2
  /\ hv.menu.items[1].children # <<>>
  /\ cms.pages[2].status = "published" /\ cms.pages[2].parent_id = 1
  /\ cms.pages[1].status = "published" /\ cms.pages[1].parent_id = NoId
  /\ hv.result.items[1].url = <<"/", "a">>
  /\ hv.result.items[1].children[1].url = <<"/", "a", "/", "b">>
  /\ hv.result.items[2] = hv.menu.items[2]
  /\ hv.menu.items[1].url = <<"/", "x">>

====
